---- MODULE Spec2Model ----
(***************************************************************************)
(* A model of spark-jit / math-evaluator: the tokenizer, the shunting-yard *)
(* converter, the x86-64 assembler, the code generator with its integrity  *)
(* hasher, the Executable harness and the machine that runs the generated  *)
(* bytes.                                                                  *)
(*                                                                         *)
(* A 64-bit value is the sequence of its 8 little-endian bytes, as         *)
(* to_le_bytes gives it: TLC's integers are 32 bits wide, and the claims   *)
(* are about wrapping 64-bit arithmetic and about the bytes emitted.       *)
(***************************************************************************)
EXTENDS Integers, Sequences, FiniteSets, TLC

(***************************************************************************)
(* LET x == v IN Body(x) with v evaluated once: TLC may evaluate a LET     *)
(* definition or an operator argument again at each use, which a chain of  *)
(* dependent steps turns into exponential work.                            *)
(***************************************************************************)

Let(v, Body(_)) == CHOOSE r \in {Body(x) : x \in {v}} : TRUE

Let2(u, v, Body(_, _)) == CHOOSE r \in {Body(x, y) : x \in {u}, y \in {v}} : TRUE

\* F(... F(F(x, lo), lo + 1) ..., hi), evaluated in halves so that the evaluation
\* stays shallow
RECURSIVE Iterate(_, _, _, _)
Iterate(F(_, _), x, lo, hi) ==
    IF lo > hi THEN x
    ELSE IF lo = hi THEN F(x, lo)
    ELSE Let((lo + hi) \div 2, LAMBDA mid :
         Let(Iterate(F, x, lo, mid), LAMBDA h : Iterate(F, h, mid + 1, hi)))

(***************************************************************************)
(* Fixed-width arithmetic on little-endian byte sequences.                 *)
(***************************************************************************)

\* value.to_le_bytes() for a value 0 <= v < 2^31, n bytes wide
to_le_bytes(v, n) ==
    Let(v, LAMBDA x : [k \in 1..n |-> IF k <= 4 THEN (x \div (256 ^ (k - 1))) % 256 ELSE 0])

\* the i64 / u64 / usize with the small value v
Word(v) == to_le_bytes(v, 8)

\* two's complement sign bit of a byte sequence
IsNeg(a) == Let(a, LAMBDA x : x[Len(x)] >= 128)

\* bitwise complement
Not(a) == Let(a, LAMBDA x : [i \in 1..Len(x) |-> 255 - x[i]])

Zero(n) == [i \in 1..n |-> 0]

\* bytes i.. of a + b + c, c the carry into byte i
RECURSIVE AddFrom(_, _, _, _)
AddFrom(a, b, i, c) ==
    IF i > Len(a) THEN <<>>
    ELSE <<(a[i] + b[i] + c) % 256>> \o AddFrom(a, b, i + 1, (a[i] + b[i] + c) \div 256)

\* a + b + c modulo 2^(8 * Len(a)), c the carry in
AddC(a, b, c) == Let2(a, b, LAMBDA x, y : AddFrom(x, y, 1, c))

wrapping_add(a, b) == AddC(a, b, 0)

wrapping_sub(a, b) == AddC(a, Not(b), 1)

wrapping_neg(a) == Let(a, LAMBDA x : AddC(Not(x), Zero(Len(x)), 1))

\* bytes i.. of a * k + c, k a byte and c the carry into byte i
RECURSIVE MulFrom(_, _, _, _)
MulFrom(a, k, i, c) ==
    IF i > Len(a) THEN <<>>
    ELSE <<(a[i] * k + c) % 256>> \o MulFrom(a, k, i + 1, (a[i] * k + c) \div 256)

\* a * k + c modulo 2^(8 * Len(a)), k a byte
MulByte(a, k, c) == Let2(a, k, LAMBDA x, y : MulFrom(x, y, 1, c))

\* a * b modulo 2^(8 * Len(a)), the sum of the rows a * b[i] * 256^(i - 1) (one row
\* when b is a single byte); Len(a) = Len(b)
wrapping_mul(a, b) ==
    Let2(a, b, LAMBDA x, y :
        IF \A i \in 2..Len(y) : y[i] = 0 THEN MulByte(x, y[1], 0)
        ELSE Iterate(LAMBDA sum, i :
                    IF y[i] = 0 THEN sum
                    ELSE AddC(sum, Zero(i - 1) \o SubSeq(MulByte(x, y[i], 0), 1, Len(x) - i + 1), 0),
                Zero(Len(x)), 1, Len(x)))

\* widen a two's complement value to n bytes
SignExtend(a, n) ==
    Let(a, LAMBDA x : x \o [i \in 1..(n - Len(x)) |-> IF x[Len(x)] >= 128 THEN 255 ELSE 0])

\* unsigned a < b on bytes 1..n, compared from the most significant
RECURSIVE ULessFrom(_, _, _)
ULessFrom(a, b, n) ==
    IF n = 0 THEN FALSE
    ELSE IF a[n] # b[n] THEN a[n] < b[n]
    ELSE ULessFrom(a, b, n - 1)

\* unsigned a < b; Len(a) = Len(b)
ULess(a, b) == Let2(a, b, LAMBDA x, y : ULessFrom(x, y, Len(x)))

IsZero(a) == Let(a, LAMBDA x : \A i \in 1..Len(x) : x[i] = 0)

\* the largest byte g with g * d <= r, found bit by bit from the top
DivDigit(r, d) ==
    IF ULess(r, d) THEN 0
    ELSE Iterate(LAMBDA g, k : IF ULess(r, MulByte(d, g + 2 ^ (8 - k), 0)) THEN g
                               ELSE g + 2 ^ (8 - k),
                 0, 1, 8)

\* unsigned long division, one byte of A at a time from the most significant:
\* <<A / D, A % D>> for D # 0, Len(A) and Len(D) wide
UDivRem(A, D) ==
    Let2(A, D \o <<0>>, LAMBDA x, d :
        Iterate(LAMBDA qr, k :
                    Let(<<x[Len(x) + 1 - k]>> \o qr[2], LAMBDA r :
                    Let(DivDigit(r, d), LAMBDA g :
                        <<(<<g>> \o qr[1]),
                          SubSeq(IF g = 0 THEN r ELSE wrapping_sub(r, MulByte(d, g, 0)),
                                 1, Len(d) - 1)>>)),
                <<<<>>, Zero(Len(d) - 1)>>, 1, Len(x)))

\* magnitude of a two's complement value, as an unsigned value of the same width
Magnitude(a) == Let(a, LAMBDA x : IF x[Len(x)] >= 128 THEN wrapping_neg(x) ELSE x)

(***************************************************************************)
(* The helpers the generated code calls (builtins.rs).                     *)
(***************************************************************************)

\* i64::wrapping_pow by squaring, bits the exponent's bits from the least significant:
\* at bit k, acc takes the factor base when the bit is set and base is squared
wrapping_pow(base, bits) ==
    Let2(base, bits, LAMBDA x, y :
        Iterate(LAMBDA s, k :
                    IF \A i \in k..Len(y) : y[i] = 0 THEN s
                    ELSE <<IF y[k] = 1 THEN wrapping_mul(s[1], s[2]) ELSE s[1],
                           wrapping_mul(s[2], s[2])>>,
                <<Word(1), x>>, 1, Len(y))[1])

\* b as u32, as its 32 bits
ExpBits(b) ==
    Let(b, LAMBDA x : [k \in 1..32 |-> (x[((k - 1) \div 8) + 1] \div (2 ^ ((k - 1) % 8))) % 2])

\* pow(a, b) = a.wrapping_pow(b as u32)
pow(a, b) == wrapping_pow(a, ExpBits(b))

\* the loop `for i in 1..=n { fact = fact.wrapping_mul(i) }`; the product is 0
\* modulo 2^64 from i = 66 on, so the iterations after it change nothing
factorial(n) ==
    Let(n, LAMBDA x :
        Iterate(LAMBDA fact, i : IF IsNeg(x) \/ ULess(x, Word(i)) THEN fact
                                 ELSE wrapping_mul(fact, Word(i)),
                Word(1), 1, 66))

(***************************************************************************)
(* Tokens (tokenizer.rs).  A character is a one-character string, a text a *)
(* sequence of characters, a variable name the sequence of its characters. *)
(***************************************************************************)

Number(n) == [kind |-> "Number", val |-> n]

Variable(name) == [kind |-> "Variable", name |-> name]

UnaryOp(op) == [kind |-> "UnaryOp", op |-> op]

BinaryOp(op) == [kind |-> "BinaryOp", op |-> op]

LParen == [kind |-> "LParen"]

RParen == [kind |-> "RParen"]

\* Option::None
None == [kind |-> "None"]

Ok(v) == [ok |-> TRUE, val |-> v]

Err(e) == [ok |-> FALSE, err |-> e]

DecDigits == <<"0", "1", "2", "3", "4", "5", "6", "7", "8", "9">>

LowerHex == <<"a", "b", "c", "d", "e", "f">>

UpperHex == <<"A", "B", "C", "D", "E", "F">>

Range(f) == {f[i] : i \in DOMAIN f}

is_ascii_digit(c) == c \in Range(DecDigits)

is_ascii_hexdigit(c) == c \in Range(DecDigits) \cup Range(LowerHex) \cup Range(UpperHex)

\* a class of characters that has no member
is_no_char(c) == FALSE

is_ascii_alphabetic(c) ==
    c \in {"a", "b", "c", "d", "e", "f", "g", "h", "i", "j", "k", "l", "m",
           "n", "o", "p", "q", "r", "s", "t", "u", "v", "w", "x", "y", "z",
           "A", "B", "C", "D", "E", "F", "G", "H", "I", "J", "K", "L", "M",
           "N", "O", "P", "Q", "R", "S", "T", "U", "V", "W", "X", "Y", "Z"}

is_ascii_alphanumeric(c) == is_ascii_alphabetic(c) \/ is_ascii_digit(c)

is_whitespace(c) == c \in {" ", "\t", "\n", "\r"}

\* char::to_digit(16)
to_digit(c) ==
    LET lower == DecDigits \o LowerHex
    IN  IF c \in Range(lower) THEN (CHOOSE i \in DOMAIN lower : lower[i] = c) - 1
        ELSE 9 + (CHOOSE i \in DOMAIN UpperHex : UpperHex[i] = c)

\* from_str_radix with wrapping_mul and wrapping_add in place of the checked ones
RECURSIVE from_str_radix_wrapping(_, _, _)
from_str_radix_wrapping(digits, radix, acc) ==
    IF digits = <<>> THEN Ok(acc)
    ELSE from_str_radix_wrapping(Tail(digits), radix,
             SubSeq(MulByte(acc \o <<0>>, radix, to_digit(digits[1])), 1, 8))

\* i64::from_str_radix on a non-empty digit string without sign: checked_mul by the
\* radix, then checked_add of the digit; acc is the value so far
RECURSIVE from_str_radix(_, _, _)
from_str_radix(digits, radix, acc) ==
    IF digits = <<>> THEN Ok(acc)
    ELSE Let(MulByte(acc \o <<0>>, radix, to_digit(digits[1])), LAMBDA wide :
             IF wide[9] # 0 \/ wide[8] >= 128 THEN Err("IntegerParseError")
             ELSE from_str_radix(Tail(digits), radix, SubSeq(wide, 1, 8)))

\* the longest run input[i], input[i+1], ... of characters of class Pred (next_if)
RECURSIVE TakeWhile(_, _, _)
TakeWhile(Pred(_), input, i) ==
    IF i <= Len(input) /\ Pred(input[i])
    THEN <<input[i]>> \o TakeWhile(Pred, input, i + 1)
    ELSE <<>>

is_var_char(c) == is_ascii_alphanumeric(c) \/ c = "_"

\* Tokenizer::makes_unary
makes_unary(prev) == prev.kind \notin {"Number", "Variable", "RParen"}

\* tokens.last().cloned()
last(tokens) == IF tokens = <<>> THEN None ELSE tokens[Len(tokens)]

\* the body of Tokenizer::tokenize from character i on: tokens is the local vector,
\* self the Tokenizer (prev, variables).  Gives the result and the Tokenizer after.
RECURSIVE tokenize_from(_, _, _, _)
tokenize_from(self, input, i, tokens) ==
    IF i > Len(input) THEN [res |-> Ok(tokens), self |-> self]
    ELSE
    LET c == input[i]
        \* one iteration that pushed token t and consumed n characters
        Step(t, n, variables) ==
            LET tokens2 == IF t = None THEN tokens ELSE Append(tokens, t)
            IN  tokenize_from([prev |-> last(tokens2), variables |-> variables],
                              input, i + n, tokens2)
        Push(t) == Step(t, 1, self.variables)
    IN  IF is_ascii_alphabetic(c) \/ c = "_" THEN
            LET var == <<c>> \o TakeWhile(is_var_char, input, i + 1)
            IN  Step(Variable(var), Len(var), self.variables \cup {var})
        ELSE IF is_ascii_digit(c) THEN
            LET hex    == i < Len(input) /\ input[i + 1] = "x"
                digits == IF hex THEN TakeWhile(is_ascii_hexdigit, input, i + 2)
                                 ELSE TakeWhile(is_ascii_digit, input, i + 1)
                num    == from_str_radix(<<c>> \o digits, IF hex THEN 16 ELSE 10, Word(0))
            IN  IF ~num.ok THEN [res |-> Err(<<"IntegerParseError">>), self |-> self]
                ELSE Step(Number(num.val), 1 + Len(digits) + (IF hex THEN 1 ELSE 0),
                          self.variables)
        ELSE IF c = "+" THEN Push(BinaryOp("Plus"))
        ELSE IF c = "-" THEN
            IF makes_unary(self.prev) THEN Push(UnaryOp("Minus"))
            ELSE Push(BinaryOp("Minus"))
        ELSE IF c = "!" THEN Push(UnaryOp("Fact"))
        ELSE IF c = "^" THEN Push(BinaryOp("Pow"))
        ELSE IF c = "*" THEN Push(BinaryOp("Mult"))
        ELSE IF c = "/" THEN Push(BinaryOp("Div"))
        ELSE IF c = "(" THEN Push(LParen)
        ELSE IF c = ")" THEN Push(RParen)
        ELSE IF is_whitespace(c) THEN Push(None)
        ELSE [res |-> Err(<<"UnexpectedCharacter", c>>), self |-> self]

\* Tokenizer::new
Tokenizer_new == [prev |-> None, variables |-> {}]

\* Tokenizer::tokenize
tokenize(self, input) == tokenize_from(self, input, 1, <<>>)

(***************************************************************************)
(* The shunting-yard converter (rpn_converter.rs).                         *)
(***************************************************************************)

\* get_prec_assoc with ^ grouping left to right
get_prec_assoc_pow_left(op) ==
    IF op.kind = "BinaryOp" /\ op.op \in {"Minus", "Plus"} THEN [prec |-> 1, assoc |-> "Left"]
    ELSE IF op.kind = "BinaryOp" /\ op.op \in {"Mult", "Div"} THEN [prec |-> 2, assoc |-> "Left"]
    ELSE IF op.kind = "BinaryOp" /\ op.op = "Pow" THEN [prec |-> 4, assoc |-> "Left"]
    ELSE IF op.kind = "UnaryOp" /\ op.op \in {"Minus", "Plus"} THEN [prec |-> 3, assoc |-> "NA"]
    ELSE IF op.kind = "UnaryOp" /\ op.op = "Fact" THEN [prec |-> 5, assoc |-> "NA"]
    ELSE [prec |-> 0, assoc |-> "NA"]

\* RpnConverter::get_prec_assoc
\* unary minus and plus above everything, on the level of the factorial
get_prec_assoc_unary_first(op) ==
    IF op.kind = "BinaryOp" /\ op.op \in {"Minus", "Plus"} THEN [prec |-> 1, assoc |-> "Left"]
    ELSE IF op.kind = "BinaryOp" /\ op.op \in {"Mult", "Div"} THEN [prec |-> 2, assoc |-> "Left"]
    ELSE IF op.kind = "BinaryOp" /\ op.op = "Pow" THEN [prec |-> 4, assoc |-> "Right"]
    ELSE IF op.kind = "UnaryOp" THEN [prec |-> 5, assoc |-> "NA"]
    ELSE [prec |-> 0, assoc |-> "NA"]

get_prec_assoc(op) ==
    IF op.kind = "BinaryOp" /\ op.op \in {"Minus", "Plus"} THEN [prec |-> 1, assoc |-> "Left"]
    ELSE IF op.kind = "BinaryOp" /\ op.op \in {"Mult", "Div"} THEN [prec |-> 2, assoc |-> "Left"]
    ELSE IF op.kind = "BinaryOp" /\ op.op = "Pow" THEN [prec |-> 4, assoc |-> "Right"]
    ELSE IF op.kind = "UnaryOp" /\ op.op \in {"Minus", "Plus"} THEN [prec |-> 3, assoc |-> "NA"]
    ELSE IF op.kind = "UnaryOp" /\ op.op = "Fact" THEN [prec |-> 5, assoc |-> "NA"]
    ELSE [prec |-> 0, assoc |-> "NA"]

\* the loop of RpnConverter::verify_rpn from token i on, n_operands the count so far
RECURSIVE verify_from(_, _, _)
verify_from(tokens, i, n_operands) ==
    IF i > Len(tokens)
    THEN IF n_operands > 1 THEN Err("TooManyOperands") ELSE Ok(<<>>)
    ELSE LET t == tokens[i]
             n == IF t.kind \in {"Number", "Variable"} THEN n_operands + 1
                  ELSE IF t.kind = "BinaryOp" THEN n_operands - 1
                  ELSE n_operands
         IN  IF t.kind \notin {"Number", "Variable", "BinaryOp", "UnaryOp"}
             THEN Err("panic: Unexpected token in RPN")
             ELSE IF n < 1 THEN Err("NotEnoughOperands")
             ELSE verify_from(tokens, i + 1, n)

\* RpnConverter::verify_rpn
verify_rpn(tokens) == verify_from(tokens, 1, 0)

\* the `while !stack.is_empty()` loop of the BinaryOp arm: <<output, stack>> after it
RECURSIVE pop_higher(_, _, _)
pop_higher(pa1, output, stack) ==
    IF stack = <<>> THEN <<output, stack>>
    ELSE LET pa2 == get_prec_assoc(stack[Len(stack)])
         IN  IF \/ (pa1.assoc = "Left" /\ pa1.prec <= pa2.prec)
                \/ (pa1.assoc = "Right" /\ pa1.prec < pa2.prec)
             THEN pop_higher(pa1, Append(output, stack[Len(stack)]),
                             SubSeq(stack, 1, Len(stack) - 1))
             ELSE <<output, stack>>

\* the `while let Some(tok) = stack.pop()` loop of the RParen arm:
\* <<found, output, stack>> after it
RECURSIVE pop_to_lparen(_, _)
pop_to_lparen(output, stack) ==
    IF stack = <<>> THEN <<FALSE, output, stack>>
    ELSE LET tok  == stack[Len(stack)]
             rest == SubSeq(stack, 1, Len(stack) - 1)
         IN  IF tok = LParen THEN <<TRUE, output, rest>>
             ELSE pop_to_lparen(Append(output, tok), rest)

\* the final loop of convert without its look at the tokens left on the stack
drain_unchecked(output, stack) == Ok(output)

\* the final `while let Some(tok) = stack.pop()` loop of convert
RECURSIVE drain(_, _)
drain(output, stack) ==
    IF stack = <<>> THEN Ok(output)
    ELSE LET tok == stack[Len(stack)]
         IN  IF tok.kind \in {"BinaryOp", "UnaryOp"}
             THEN drain(Append(output, tok), SubSeq(stack, 1, Len(stack) - 1))
             ELSE IF tok = LParen THEN Err("MismatchedOpeningParen")
             ELSE Err("panic: Unexpected token on the stack")

\* the `for token in tokens.iter()` loop of convert from token i on, then the rest
RECURSIVE convert_from(_, _, _, _)
convert_from(tokens, i, output, stack) ==
    IF i > Len(tokens)
    THEN LET drained == drain(output, stack)
         IN  IF ~drained.ok THEN drained
             ELSE IF verify_rpn(drained.val).ok THEN Ok(drained.val)
             ELSE verify_rpn(drained.val)
    ELSE LET token == tokens[i]
         IN  IF token.kind \in {"Number", "Variable"}
             THEN convert_from(tokens, i + 1, Append(output, token), stack)
             ELSE IF token.kind = "UnaryOp"
             THEN convert_from(tokens, i + 1, output, Append(stack, token))
             ELSE IF token.kind = "BinaryOp"
             THEN LET os == pop_higher(get_prec_assoc(token), output, stack)
                  IN  convert_from(tokens, i + 1, os[1], Append(os[2], token))
             ELSE IF token.kind = "LParen"
             THEN convert_from(tokens, i + 1, output, Append(stack, token))
             ELSE LET fos == pop_to_lparen(output, stack)
                  IN  IF ~fos[1] THEN Err("MismatchedClosingParen")
                      ELSE convert_from(tokens, i + 1, fos[2], fos[3])

\* RpnConverter::convert
convert(tokens) == convert_from(tokens, 1, <<>>, <<>>)

(***************************************************************************)
(* The byte writer and the assembler (writer.rs, arch/x86.rs).  An X86Asm  *)
(* is its writer's buffer and whether a call on it has panicked, after    *)
(* which the buffer no longer matters.                                     *)
(***************************************************************************)

\* enum Reg64
Reg64 == [Rax |-> 0, Rcx |-> 1, Rdx |-> 2, Rbx |-> 3, Rsp |-> 4, Rbp |-> 5,
          Rsi |-> 6, Rdi |-> 7, R8 |-> 8, R9 |-> 9, R10 |-> 10, R11 |-> 11,
          R12 |-> 12, R13 |-> 13, R14 |-> 14, R15 |-> 15]

\* enum Operand: a register, a 64-bit immediate (8 bytes), [base + disp] (disp 4 bytes)
Reg(r) == [t |-> "Reg", reg |-> r]

Imm64(i) == [t |-> "Imm64", imm |-> i]

MemDisp(base, disp) == [t |-> "MemDisp", reg |-> base, disp |-> disp]

\* X86Asm::new
X86Asm_new == [writer |-> <<>>, panic |-> FALSE]

\* unimplemented!()
unimplemented(self) == [self EXCEPT !.panic = TRUE]

\* Writer::emit
emit(self, bytes) == [self EXCEPT !.writer = @ \o bytes]

emit8(self, value) == emit(self, <<value>>)

\* emit32(imm as u32) / emit32(offset as u32): the low 4 bytes, little-endian
emit32(self, value) == emit(self, SubSeq(value, 1, 4))

emit64(self, value) == emit(self, value)

Bit(cond) == IF cond THEN 1 ELSE 0

\* 0b0100_0000 | (w << 3) | (r << 2) | (x << 1) | b
RexByte(w, r, x, b) == 64 + 8 * w + 4 * r + 2 * x + b

emit_rex_slash(self, arg, w) ==
    IF arg.t \in {"Reg", "MemDisp"}
    THEN IF w = 0 /\ arg.reg < 8 THEN self
         ELSE emit8(self, RexByte(w, 0, 0, Bit(arg.reg >= 8)))
    ELSE unimplemented(self)

\* no REX prefix at all
emit_rex_none(self, arg, w) == self

emit_rex_oi(self, arg, w) == emit_rex_slash(self, arg, w)

emit_rex_mr(self, dst, src, w) ==
    IF dst.t = "Reg" /\ src.t = "Reg" /\ dst.reg < 8 /\ src.reg < 8 /\ w = 0 THEN self
    ELSE IF dst.t \in {"Reg", "MemDisp"} /\ src.t = "Reg"
    THEN emit8(self, RexByte(w, Bit(src.reg >= 8), 0, Bit(dst.reg >= 8)))
    ELSE unimplemented(self)

emit_rex_rm(self, dst, src, w) ==
    IF dst.t = "Reg" /\ src.t = "Reg" /\ dst.reg < 8 /\ src.reg < 8 THEN self
    ELSE IF dst.t = "Reg" /\ src.t \in {"Reg", "MemDisp"}
    THEN emit8(self, RexByte(w, Bit(dst.reg >= 8), 0, Bit(src.reg >= 8)))
    ELSE unimplemented(self)

\* enum ModRM: Reg = 0b11, MemDisp32 = 0b10
emit_modrm(self, modrm_low, rm) ==
    IF rm.t = "Reg" THEN emit8(self, 3 * 64 + modrm_low)
    ELSE IF rm.t = "MemDisp" THEN emit32(emit8(self, 2 * 64 + modrm_low), rm.disp)
    ELSE unimplemented(self)

\* reg as u8 & 0b111
encode_reg(reg) == reg % 8

emit_modrm_rm(self, dst, src) ==
    IF src.t \in {"Reg", "MemDisp"}
    THEN emit_modrm(self, encode_reg(dst) * 8 + encode_reg(src.reg), src)
    ELSE unimplemented(self)

emit_modrm_mr(self, dst, src) ==
    IF dst.t \in {"Reg", "MemDisp"}
    THEN emit_modrm(self, encode_reg(src) * 8 + encode_reg(dst.reg), dst)
    ELSE unimplemented(self)

emit_modrm_slash(self, slash, rm) ==
    IF rm.t \in {"Reg", "MemDisp"}
    THEN emit_modrm(self, slash * 8 + encode_reg(rm.reg), rm)
    ELSE unimplemented(self)

\* F7 /3
neg(self, dst) ==
    IF dst.t = "Reg"
    THEN emit_modrm_slash(emit8(emit_rex_oi(self, dst, 1), 247), 3, dst)
    ELSE unimplemented(self)

\* 01 /r, 81 /0 id
add(self, dst, src) ==
    IF dst.t = "Reg" /\ src.t = "Reg"
    THEN emit_modrm_mr(emit8(emit_rex_mr(self, dst, src, 1), 1), dst, src.reg)
    ELSE IF dst.t = "Reg" /\ src.t = "Imm64"
    THEN emit32(emit_modrm_slash(emit8(emit_rex_slash(self, dst, 1), 129), 0, dst), src.imm)
    ELSE unimplemented(self)

\* 29 /r, 81 /5 id
sub(self, dst, src) ==
    IF dst.t = "Reg" /\ src.t = "Reg"
    THEN emit_modrm_mr(emit8(emit_rex_mr(self, dst, src, 1), 41), dst, src.reg)
    ELSE IF dst.t = "Reg" /\ src.t = "Imm64"
    THEN emit32(emit_modrm_slash(emit8(emit_rex_slash(self, dst, 1), 129), 5, dst), src.imm)
    ELSE unimplemented(self)

\* F7 /4
mul(self, src) ==
    IF src.t = "Reg"
    THEN emit_modrm_slash(emit8(emit_rex_oi(self, src, 1), 247), 4, src)
    ELSE unimplemented(self)

\* F7 /5
imul(self, src) ==
    IF src.t = "Reg"
    THEN emit_modrm_slash(emit8(emit_rex_oi(self, src, 1), 247), 5, src)
    ELSE unimplemented(self)

\* F7 /6
div(self, src) ==
    IF src.t = "Reg"
    THEN emit_modrm_slash(emit8(emit_rex_oi(self, src, 1), 247), 6, src)
    ELSE unimplemented(self)

\* F7 /7
idiv(self, src) ==
    IF src.t = "Reg"
    THEN emit_modrm_slash(emit8(emit_rex_oi(self, src, 1), 247), 7, src)
    ELSE unimplemented(self)

\* 48 99
cqo(self) == emit8(emit8(self, 72), 153)

\* FF /2
call(self, target) ==
    IF target.t = "Reg"
    THEN emit_modrm_slash(emit8(emit_rex_oi(self, target, 1), 255), 2, target)
    ELSE unimplemented(self)

\* C3
ret(self) == emit8(self, 195)

mov(self, dst, src) ==
    IF dst.t = "Reg" /\ src.t = "Reg"
    THEN emit_modrm_mr(emit8(emit_rex_mr(self, dst, src, 1), 137), dst, src.reg)
    ELSE IF dst.t = "Reg" /\ src.t = "Imm64"
    THEN emit64(emit8(emit_rex_oi(self, dst, 1), 184 + encode_reg(dst.reg)), src.imm)
    ELSE IF dst.t = "MemDisp" /\ src.t = "Reg"
    THEN emit_modrm_mr(emit8(emit_rex_mr(self, dst, src, 1), 137), dst, src.reg)
    ELSE IF dst.t = "MemDisp" /\ src.t = "Imm64"
    THEN emit32(emit_modrm_slash(emit8(emit_rex_slash(self, dst, 1), 199), 0, dst),
                src.imm)
    ELSE IF dst.t = "Reg" /\ src.t = "MemDisp"
    THEN emit_modrm_rm(emit8(emit_rex_rm(self, dst, src, 1), 139), dst.reg, src)
    ELSE unimplemented(self)

\* 50+r / 68 imm32
push(self, src) ==
    IF src.t = "Reg" THEN emit8(emit_rex_oi(self, src, 1), 80 + encode_reg(src.reg))
    ELSE IF src.t = "Imm64" THEN emit32(emit8(self, 104), src.imm)
    ELSE unimplemented(self)

\* 58+r
pop(self, dst) ==
    IF dst.t = "Reg" THEN emit8(emit_rex_oi(self, dst, 1), 88 + encode_reg(dst.reg))
    ELSE unimplemented(self)

\* the call c of a public method of X86Asm on self: c.call is the method, c.dst its
\* operand (its first operand for add, sub and mov) and c.src the second operand
X86Asm_call(self, c) ==
    IF c.call = "neg" THEN neg(self, c.dst)
    ELSE IF c.call = "mul" THEN mul(self, c.dst)
    ELSE IF c.call = "imul" THEN imul(self, c.dst)
    ELSE IF c.call = "div" THEN div(self, c.dst)
    ELSE IF c.call = "idiv" THEN idiv(self, c.dst)
    ELSE IF c.call = "call" THEN call(self, c.dst)
    ELSE IF c.call = "push" THEN push(self, c.dst)
    ELSE IF c.call = "pop" THEN pop(self, c.dst)
    ELSE IF c.call = "add" THEN add(self, c.dst, c.src)
    ELSE IF c.call = "sub" THEN sub(self, c.dst, c.src)
    ELSE mov(self, c.dst, c.src)

(***************************************************************************)
(* The code generator (compiler.rs).  A Compiler is its variables_map and  *)
(* its integrity_hasher; a Sha256 hasher is the byte stream fed to it so   *)
(* far, and a digest stands for the stream it was finalized from (SHA-256  *)
(* taken as collision-free).  During compile the record also carries the   *)
(* local codegen and, as a ghost, native_movs: the code offsets at which   *)
(* compile_native_call placed its `mov RAX, imm64`.                        *)
(***************************************************************************)

ARG1 == Reg64.R8

ARG2 == Reg64.R9

VARS_BASE == Reg64.R13

EVAL_STACK == Reg64.R14

SCRATCH_REG == Reg64.R15

SYSTEMV_CALLING_CONV ==
    <<Reg64.Rdi, Reg64.Rsi, Reg64.Rdx, Reg64.Rcx, Reg64.R8, Reg64.R9>>

\* Compiler::new
Compiler_new == [variables_map |-> <<>>, integrity_hasher |-> <<>>]

\* Sha256::finalize
finalize(hasher) == [sha256 |-> hasher]

\* Compiler::update_integrity
update_integrity(self, code) == [self EXCEPT !.integrity_hasher = @ \o code]

\* with_integrity!: run the block on the codegen, hash the bytes it appended
with_integrity(self, Block(_)) ==
    Let(self, LAMBDA s :
    Let(Block(s.codegen), LAMBDA codegen :
        LET start == Len(s.codegen.writer)
            end   == Len(codegen.writer)
        IN  update_integrity([s EXCEPT !.codegen = codegen],
                             SubSeq(codegen.writer, start + 1, end))))

\* a displacement or offset of 0 (i32)
Disp0 == to_le_bytes(0, 4)

push_eval_stack(self, op) ==
    with_integrity(self, LAMBDA codegen :
        add(IF op.t = "Imm64"
            THEN mov(mov(codegen, Reg(SCRATCH_REG), op),
                     MemDisp(EVAL_STACK, Disp0), Reg(SCRATCH_REG))
            ELSE mov(codegen, MemDisp(EVAL_STACK, Disp0), op),
            Reg(EVAL_STACK), Imm64(Word(8))))

pop_eval_stack(self, reg) ==
    with_integrity(self, LAMBDA codegen :
        mov(sub(codegen, Reg(EVAL_STACK), Imm64(Word(8))),
            Reg(reg), MemDisp(EVAL_STACK, Disp0)))

compile_prologue(self) ==
    with_integrity(self, LAMBDA codegen :
        push(push(push(push(push(push(push(push(codegen,
            Reg(Reg64.R12)), Reg(Reg64.R13)), Reg(Reg64.R14)), Reg(Reg64.R15)),
            Reg(Reg64.Rbx)), Reg(Reg64.Rbp)), Reg(Reg64.Rdi)), Reg(Reg64.Rsi)))

\* an epilogue that pops the registers in the order in which the prologue pushes them
compile_epilogue_in_push_order(self) ==
    with_integrity(self, LAMBDA codegen :
        pop(pop(pop(pop(pop(pop(pop(pop(codegen,
            Reg(Reg64.R12)), Reg(Reg64.R13)), Reg(Reg64.R14)), Reg(Reg64.R15)),
            Reg(Reg64.Rbx)), Reg(Reg64.Rbp)), Reg(Reg64.Rdi)), Reg(Reg64.Rsi)))

compile_epilogue(self) ==
    with_integrity(self, LAMBDA codegen :
        pop(pop(pop(pop(pop(pop(pop(pop(codegen,
            Reg(Reg64.Rsi)), Reg(Reg64.Rdi)), Reg(Reg64.Rbp)), Reg(Reg64.Rbx)),
            Reg(Reg64.R15)), Reg(Reg64.R14)), Reg(Reg64.R13)), Reg(Reg64.R12)))

\* the loop `for (i, arg) in args.iter().enumerate()` of compile_native_call
RECURSIVE mov_args(_, _, _)
mov_args(codegen, args, i) ==
    IF i > Len(args) THEN codegen
    ELSE mov_args(mov(codegen, Reg(SYSTEMV_CALLING_CONV[i]), args[i]), args, i + 1)

\* compile_native_call with the `mov RAX, func` inside a hashed block
compile_native_call_hashing_func(self, func, args) ==
    Let(with_integrity(self, LAMBDA codegen : mov_args(codegen, args, 1)), LAMBDA s1 :
        LET s2 == with_integrity([s1 EXCEPT !.native_movs = Append(@, Len(s1.codegen.writer))],
                                 LAMBDA codegen : mov(codegen, Reg(Reg64.Rax), Imm64(func)))
            s3 == with_integrity(s2, LAMBDA codegen : call(codegen, Reg(Reg64.Rax)))
        IN  push_eval_stack(s3, Reg(Reg64.Rax)))

\* func is the helper's absolute address (`pow as usize`), 8 bytes
compile_native_call(self, func, args) ==
    Let(with_integrity(self, LAMBDA codegen : mov_args(codegen, args, 1)), LAMBDA s1 :
        LET \* Make sure not to hash the function pointer!
            s2 == [s1 EXCEPT !.codegen = mov(@, Reg(Reg64.Rax), Imm64(func)),
                             !.native_movs = Append(@, Len(s1.codegen.writer))]
            s3 == with_integrity(s2, LAMBDA codegen : call(codegen, Reg(Reg64.Rax)))
        IN  push_eval_stack(s3, Reg(Reg64.Rax)))

\* variables_map is the sequence of names in slot order: name i has offset i - 1
map_get(variables_map, name) ==
    IF \E i \in DOMAIN variables_map : variables_map[i] = name
    THEN (CHOOSE i \in DOMAIN variables_map : variables_map[i] = name) - 1
    ELSE -1

\* variables_map.entry(name).or_insert_with(|| len)
map_entry_or_insert(variables_map, name) ==
    IF map_get(variables_map, name) >= 0 THEN variables_map
    ELSE Append(variables_map, name)

\* one arm of the `match token` of compile; status "ok", or the error or panic
\* that ends compile; process.pow and process.factorial are the helpers' addresses
compile_token(self, token, process) ==
    IF self.status # "ok" THEN self
    ELSE IF token.kind = "Variable" THEN
        LET vm     == map_entry_or_insert(self.variables_map, token.name)
            offset == map_get(vm, token.name)
            s1     == with_integrity([self EXCEPT !.variables_map = vm],
                        LAMBDA codegen :
                          mov(add(mov(codegen, Reg(SCRATCH_REG), Reg(VARS_BASE)),
                                  Reg(SCRATCH_REG), Imm64(Word(offset * 8))),
                              Reg(SCRATCH_REG), MemDisp(SCRATCH_REG, Disp0)))
        IN  push_eval_stack(s1, Reg(SCRATCH_REG))
    ELSE IF token.kind = "Number" THEN push_eval_stack(self, Imm64(token.val))
    ELSE IF token.kind = "BinaryOp" THEN
        LET s1 == pop_eval_stack(pop_eval_stack(self, ARG1), ARG2)
        IN  IF token.op = "Plus" THEN
                push_eval_stack(
                    with_integrity(s1, LAMBDA codegen : add(codegen, Reg(ARG1), Reg(ARG2))),
                    Reg(ARG1))
            ELSE IF token.op = "Minus" THEN
                push_eval_stack(
                    with_integrity(s1, LAMBDA codegen : sub(codegen, Reg(ARG2), Reg(ARG1))),
                    Reg(ARG2))
            ELSE IF token.op = "Mult" THEN
                push_eval_stack(
                    with_integrity(s1, LAMBDA codegen :
                        imul(mov(codegen, Reg(Reg64.Rax), Reg(ARG1)), Reg(ARG2))),
                    Reg(Reg64.Rax))
            ELSE IF token.op = "Div" THEN
                push_eval_stack(
                    with_integrity(s1, LAMBDA codegen :
                        idiv(cqo(mov(codegen, Reg(Reg64.Rax), Reg(ARG2))), Reg(ARG1))),
                    Reg(Reg64.Rax))
            ELSE IF token.op = "Pow" THEN
                compile_native_call(s1, process.pow, <<Reg(ARG2), Reg(ARG1)>>)
            ELSE [s1 EXCEPT !.status = "UnknownOp"]
    ELSE IF token.kind = "UnaryOp" THEN
        LET s1 == pop_eval_stack(self, ARG1)
        IN  IF token.op = "Plus" THEN push_eval_stack(s1, Reg(ARG1))
            ELSE IF token.op = "Minus" THEN
                push_eval_stack(
                    with_integrity(s1, LAMBDA codegen : neg(codegen, Reg(ARG1))),
                    Reg(ARG1))
            ELSE IF token.op = "Fact" THEN
                compile_native_call(s1, process.factorial, <<Reg(ARG1)>>)
            ELSE [s1 EXCEPT !.status = "UnknownOp"]
    ELSE [self EXCEPT !.status = "panic: Unexpected token"]

\* the loop `for token in rpn.iter()` of compile; an error or panic ends it
compile_tokens(self, rpn, process) ==
    Iterate(LAMBDA s, i : compile_token(s, rpn[i], process), self, 1, Len(rpn))

\* Compiler::compile up to the call of Executable::new: the Compiler after it, the
\* code, and the ghost native_movs
compile_code(compiler, rpn, process) ==
    LET s0 == [variables_map    |-> compiler.variables_map,
               integrity_hasher |-> compiler.integrity_hasher,
               codegen          |-> X86Asm_new,
               native_movs      |-> <<>>,
               status           |-> "ok"]
        s1 == with_integrity(compile_prologue(s0), LAMBDA codegen :
                mov(mov(codegen, Reg(EVAL_STACK), Reg(Reg64.Rdi)),
                    Reg(VARS_BASE), Reg(Reg64.Rsi)))
    IN  Let(compile_tokens(s1, rpn, process), LAMBDA s2 :
            IF s2.status # "ok" THEN s2
            ELSE with_integrity(compile_epilogue(pop_eval_stack(s2, Reg64.Rax)),
                                LAMBDA codegen : ret(codegen)))

(***************************************************************************)
(* The machine that executes the code blob when Executable::run calls it   *)
(* (executable.rs, `func(eval_stack_ptr, variables_area.as_ptr())`).  The  *)
(* decoder is the inverse of the encoders of x86.rs; an encoding that the  *)
(* assembler cannot produce for a 64-bit operation ends the run with the   *)
(* status "unmodelled".  Addresses below 2^31 are numbers; lay is the      *)
(* address layout of the call, env the choices left to the environment.    *)
(***************************************************************************)

\* the address a register value holds, or -1 when it is beyond the modelled range
AddrOf(w) ==
    IF w[5] = 0 /\ w[6] = 0 /\ w[7] = 0 /\ w[8] = 0 /\ w[4] < 128
    THEN w[1] + 256 * w[2] + 65536 * w[3] + 16777216 * w[4]
    ELSE -1

InRegion(addr, ptr, size) == addr >= ptr /\ addr + 8 <= ptr + size

\* an aligned 8-byte slot of the eval stack mapping, the variables area or the stack
Mapped(lay, addr) ==
    /\ addr >= 0
    /\ addr % 8 = 0
    /\ \/ InRegion(addr, lay.eval_ptr, lay.eval_size)
       \/ InRegion(addr, lay.vars_ptr, lay.vars_size)
       \/ InRegion(addr, lay.stack_top - lay.stack_size, lay.stack_size + 8)

\* byte pc of the code, 256 past its end
ByteAt(code, pc) == IF pc >= 0 /\ pc < Len(code) THEN code[pc + 1] ELSE 256

BytesAt(code, pc, n) == [k \in 1..n |-> ByteAt(code, pc + k - 1) % 256]

\* the instruction at pc: prefix, opcode, ModR/M, SIB, displacement, immediate
Decode(code, pc, regs) ==
    LET b0     == ByteAt(code, pc)
        hasrex == b0 >= 64 /\ b0 <= 79
        rex    == IF hasrex THEN b0 - 64 ELSE 0
        o      == pc + Bit(hasrex)
        opc    == ByteAt(code, o)
        modrm  == ByteAt(code, o + 1) % 256
        mod    == modrm \div 64
        rmf    == modrm % 8
        hassib == mod # 3 /\ rmf = 4
        sib    == ByteAt(code, o + 2) % 256
        B      == 8 * (rex % 2)
        X      == 8 * ((rex \div 2) % 2)
        index  == ((sib \div 8) % 8) + X
        base   == IF hassib THEN (sib % 8) + B ELSE rmf + B
        disp   == BytesAt(code, o + 2 + Bit(hassib), 4)
        scaled == IF hassib /\ index # 4
                  THEN MulByte(regs[index], 2 ^ (sib \div 64), 0) ELSE Word(0)
        usesrm == opc \in {1, 41, 129, 137, 139, 199, 247, 255}
        hasimm == opc \in {129, 199}
        mlen   == 2 + Bit(hassib) + (IF mod = 2 THEN 4 ELSE 0)
    IN  [opc  |-> opc,
         w    |-> rex \div 8,
         mod  |-> mod,
         reg  |-> ((modrm \div 8) % 8) + 8 * ((rex \div 4) % 2),
         rm   |-> rmf + B,
         low  |-> (opc % 8) + B,
         ea   |-> IF usesrm /\ mod # 3
                  THEN wrapping_add(wrapping_add(regs[base], scaled), SignExtend(disp, 8))
                  ELSE Word(0),
         imm  |-> IF opc = 104 THEN SignExtend(BytesAt(code, o + 1, 4), 8)
                  ELSE IF hasimm THEN SignExtend(BytesAt(code, o + mlen, 4), 8)
                  ELSE IF opc >= 184 /\ opc <= 191 THEN BytesAt(code, o + 1, 8)
                  ELSE Word(0),
         len  |-> Bit(hasrex) + (IF usesrm THEN mlen + (IF hasimm THEN 4 ELSE 0)
                                 ELSE IF opc >= 184 /\ opc <= 191 THEN 9
                                 ELSE IF opc = 104 THEN 5 ELSE 1),
         end  |-> opc = 256 \/ (usesrm /\ ByteAt(code, o + 1) = 256),
         modelled |-> ~usesrm \/ mod \in {2, 3}]

\* 8 bytes read at address a: a mapped slot gives what it holds (a slot of the fresh
\* mapping that was never written holds 0), any other address what env supplies
Load(m, lay, env, a) ==
    IF Mapped(lay, AddrOf(a))
    THEN IF AddrOf(a) \in DOMAIN m.mem THEN m.mem[AddrOf(a)] ELSE Word(0)
    ELSE env.junk

\* 8 bytes written at address a; a write outside the mapped slots is recorded in wild
Store(m, lay, a, v) ==
    IF Mapped(lay, AddrOf(a))
    THEN [m EXCEPT !.mem = (AddrOf(a) :> v) @@ @]
    ELSE [m EXCEPT !.wild = TRUE]

\* an access at address a that the environment answers with a segmentation fault
Segv(lay, env, a) == ~Mapped(lay, AddrOf(a)) /\ env.oob = "SIGSEGV"

ReadRM(m, lay, env, i) == IF i.mod = 3 THEN m.regs[i.rm] ELSE Load(m, lay, env, i.ea)

WriteRM(m, lay, i, v) ==
    IF i.mod = 3 THEN [m EXCEPT !.regs[i.rm] = v] ELSE Store(m, lay, i.ea, v)

Stop(m, status) == [m EXCEPT !.status = status]

\* 2^63 as an unsigned 128-bit value
TwoTo63 == [k \in 1..16 |-> IF k = 8 THEN 128 ELSE 0]

\* idiv r/m64: RDX:RAX / src, quotient truncated toward zero to RAX and remainder to
\* RDX; #DE (SIGFPE) when src is 0 or the quotient does not fit 64 signed bits
exec_idiv(m, src) ==
    IF IsZero(src) THEN Stop(m, "SIGFPE")
    ELSE Let2(m.regs[Reg64.Rax] \o m.regs[Reg64.Rdx], src, LAMBDA N, D :
         Let(UDivRem(Magnitude(N), Magnitude(D)), LAMBDA qr :
             LET negq == IsNeg(N) # IsNeg(D)
                 fits == IF negq THEN ~ULess(TwoTo63, qr[1]) ELSE ULess(qr[1], TwoTo63)
                 q    == IF negq THEN wrapping_neg(qr[1]) ELSE qr[1]
                 r    == IF IsNeg(N) THEN wrapping_neg(qr[2]) ELSE qr[2]
             IN  IF ~fits THEN Stop(m, "SIGFPE")
                 ELSE [m EXCEPT !.regs[Reg64.Rax] = SubSeq(q, 1, 8),
                                !.regs[Reg64.Rdx] = r]))

\* div r/m64: the unsigned division, #DE when the quotient does not fit 64 bits
exec_div(m, src) ==
    IF IsZero(src) THEN Stop(m, "SIGFPE")
    ELSE Let(UDivRem(m.regs[Reg64.Rax] \o m.regs[Reg64.Rdx], src), LAMBDA qr :
             IF ~IsZero(SubSeq(qr[1], 9, 16)) THEN Stop(m, "SIGFPE")
             ELSE [m EXCEPT !.regs[Reg64.Rax] = SubSeq(qr[1], 1, 8),
                            !.regs[Reg64.Rdx] = qr[2]])

\* mul / imul r/m64: RDX:RAX = RAX * src, unsigned or signed
exec_mul(m, src, signed) ==
    LET Wide(a) == IF signed THEN SignExtend(a, 16) ELSE a \o Word(0)
    IN  Let(wrapping_mul(Wide(m.regs[Reg64.Rax]), Wide(src)), LAMBDA p :
            [m EXCEPT !.regs[Reg64.Rax] = SubSeq(p, 1, 8),
                      !.regs[Reg64.Rdx] = SubSeq(p, 9, 16)])

\* the registers a System V callee may change, other than RAX
CallerSaved ==
    {Reg64.Rcx, Reg64.Rdx, Reg64.Rsi, Reg64.Rdi, Reg64.R8, Reg64.R9, Reg64.R10, Reg64.R11}

\* call r/m64: the return address goes on the stack; a helper runs to its return and
\* leaves its result in RAX and the caller-saved registers undetermined
exec_call(m, lay, env, target, return_pc) ==
    LET sp == wrapping_sub(m.regs[Reg64.Rsp], Word(8))
        m1 == Store(m, lay, sp, Word(lay.code_ptr + return_pc))
        Returned(v) ==
            [m1 EXCEPT !.regs = [r \in DOMAIN m.regs |->
                                    IF r = Reg64.Rax THEN v
                                    ELSE IF r \in CallerSaved THEN env.junk
                                    ELSE m.regs[r]],
                       !.pc = return_pc,
                       !.calls = Append(@, target)]
    IN  IF Segv(lay, env, sp) THEN Stop(m, "SIGSEGV")
        ELSE IF target = lay.helpers.pow
        THEN Returned(pow(m.regs[Reg64.Rdi], m.regs[Reg64.Rsi]))
        ELSE IF target = lay.helpers.factorial
        THEN Returned(factorial(m.regs[Reg64.Rdi]))
        ELSE IF AddrOf(target) >= lay.code_ptr /\ AddrOf(target) < lay.code_ptr + lay.code_len
        THEN [m1 EXCEPT !.regs[Reg64.Rsp] = sp, !.pc = AddrOf(target) - lay.code_ptr]
        ELSE Stop(m, "unmodelled")

\* ret: to the caller of the blob, which ends the run, or to an address inside the blob
exec_ret(m, lay, env) ==
    LET sp     == m.regs[Reg64.Rsp]
        target == Load(m, lay, env, sp)
        m1     == [m EXCEPT !.regs[Reg64.Rsp] = wrapping_add(sp, Word(8))]
    IN  IF Segv(lay, env, sp) THEN Stop(m, "SIGSEGV")
        ELSE IF target = lay.ret_addr THEN Stop(m1, "returned")
        ELSE IF AddrOf(target) >= lay.code_ptr /\ AddrOf(target) < lay.code_ptr + lay.code_len
        THEN [m1 EXCEPT !.pc = AddrOf(target) - lay.code_ptr]
        ELSE Stop(m, "unmodelled")

exec_push(m, lay, env, v) ==
    LET sp == wrapping_sub(m.regs[Reg64.Rsp], Word(8))
    IN  IF Segv(lay, env, sp) THEN Stop(m, "SIGSEGV")
        ELSE [Store(m, lay, sp, v) EXCEPT !.regs[Reg64.Rsp] = sp]

exec_pop(m, lay, env, reg) ==
    LET sp == m.regs[Reg64.Rsp]
        v  == Load(m, lay, env, sp)
    IN  IF Segv(lay, env, sp) THEN Stop(m, "SIGSEGV")
        ELSE [m EXCEPT !.regs = [[@ EXCEPT ![Reg64.Rsp] = wrapping_add(sp, Word(8))]
                                    EXCEPT ![reg] = v]]

\* the decoded instruction i on the machine m
Exec(m, i, lay, env) ==
    LET n    == [m EXCEPT !.pc = m.pc + i.len]
        src  == ReadRM(m, lay, env, i)
        segv == i.mod # 3 /\ Segv(lay, env, i.ea)
    IN  IF i.end \/ ~i.modelled THEN Stop(m, "unmodelled")
        ELSE IF i.opc >= 80 /\ i.opc <= 87 THEN exec_push(n, lay, env, m.regs[i.low])
        ELSE IF i.opc >= 88 /\ i.opc <= 95 THEN exec_pop(n, lay, env, i.low)
        ELSE IF i.opc = 104 THEN exec_push(n, lay, env, i.imm)
        ELSE IF i.opc = 195 THEN exec_ret(m, lay, env)
        ELSE IF i.w = 0 THEN Stop(m, "unmodelled")
        ELSE IF i.opc >= 184 /\ i.opc <= 191 THEN [n EXCEPT !.regs[i.low] = i.imm]
        ELSE IF i.opc = 153 THEN
            [n EXCEPT !.regs[Reg64.Rdx] = SubSeq(SignExtend(m.regs[Reg64.Rax], 16), 9, 16)]
        ELSE IF i.opc \notin {1, 41, 129, 137, 139, 199, 247, 255} THEN Stop(m, "unmodelled")
        ELSE IF segv THEN Stop(m, "SIGSEGV")
        ELSE IF i.opc = 137 THEN WriteRM(n, lay, i, m.regs[i.reg])
        ELSE IF i.opc = 139 THEN [n EXCEPT !.regs[i.reg] = src]
        ELSE IF i.opc = 1 THEN WriteRM(n, lay, i, wrapping_add(src, m.regs[i.reg]))
        ELSE IF i.opc = 41 THEN WriteRM(n, lay, i, wrapping_sub(src, m.regs[i.reg]))
        ELSE IF i.opc = 199 /\ i.reg % 8 = 0 THEN WriteRM(n, lay, i, i.imm)
        ELSE IF i.opc = 129 /\ i.reg % 8 = 0 THEN WriteRM(n, lay, i, wrapping_add(src, i.imm))
        ELSE IF i.opc = 129 /\ i.reg % 8 = 5 THEN WriteRM(n, lay, i, wrapping_sub(src, i.imm))
        ELSE IF i.opc = 247 /\ i.reg % 8 = 3 THEN WriteRM(n, lay, i, wrapping_neg(src))
        ELSE IF i.opc = 247 /\ i.reg % 8 = 4 THEN exec_mul(n, src, FALSE)
        ELSE IF i.opc = 247 /\ i.reg % 8 = 5 THEN exec_mul(n, src, TRUE)
        ELSE IF i.opc = 247 /\ i.reg % 8 = 6 THEN exec_div(n, src)
        ELSE IF i.opc = 247 /\ i.reg % 8 = 7 THEN exec_idiv(n, src)
        ELSE IF i.opc = 255 /\ i.reg % 8 = 2 THEN exec_call(m, lay, env, src, m.pc + i.len)
        ELSE Stop(m, "unmodelled")

\* one instruction; a machine that has stopped stays as it is
Step(m, code, lay, env) ==
    IF m.status # "running" THEN m
    ELSE Let(Decode(code, m.pc, m.regs), LAMBDA i : Exec(m, i, lay, env))

\* instructions until the run ends; fuel bounds the count (the blob is straight-line
\* code, so its length in bytes is enough)
Execute(m, code, lay, env, fuel) ==
    Let(Iterate(LAMBDA x, k : Step(x, code, lay, env), m, 1, fuel), LAMBDA end :
        IF end.status = "running" THEN Stop(end, "unmodelled") ELSE end)

\* the machine at the first instruction of the blob, called as
\* func(eval_stack_ptr, variables_area.as_ptr()); mem holds the eval stack mapping and
\* the variables area, and the return address is on the stack
Enter(lay, env, mem) ==
    [regs   |-> [r \in 0..15 |->
                    IF r = Reg64.Rdi THEN Word(lay.eval_ptr)
                    ELSE IF r = Reg64.Rsi THEN Word(lay.vars_ptr)
                    ELSE IF r = Reg64.Rsp THEN Word(lay.stack_top)
                    ELSE env.caller[r]],
     mem    |-> (lay.stack_top :> lay.ret_addr) @@ mem,
     pc     |-> 0,
     status |-> "running",
     wild   |-> FALSE,
     calls  |-> <<>>]

(***************************************************************************)
(* Memory mappings (mmap.rs) and the Executable (executable.rs).  A        *)
(* process is the facts of one address space: where the helpers are        *)
(* linked, where mmap places a mapping, where the heap block of a Vec and  *)
(* the stack are, and the return address of the harness's call.            *)
(***************************************************************************)

MAP_RW == {"PROT_READ", "PROT_WRITE"}

MAP_RX == {"PROT_READ", "PROT_EXEC"}

MAP_RWX == {"PROT_READ", "PROT_WRITE", "PROT_EXEC"}

\* sysconf(_SC_PAGESIZE)
page_size == 4096

\* (size + page_size - 1) & !(page_size - 1)
page_aligned_size(size) == ((size + page_size - 1) \div page_size) * page_size

\* MmapBuf::new; ptr is the address mmap returned
MmapBuf_new(ptr, size) ==
    [ptr |-> ptr, size |-> page_aligned_size(size), protect |-> MAP_RW]

\* MmapBuf::protect
protect(self, prot) == [self EXCEPT !.protect = prot]

\* MmapBuf::protect_rw
protect_rw(self) == protect(self, MAP_RW)

protect_rwx(self) == protect(self, MAP_RWX)

\* split_end without the check of the size
split_end_unchecked(self, size) ==
    <<[self EXCEPT !.size = @ - size],
      Ok([ptr |-> self.ptr + (self.size - size), size |-> size, protect |-> self.protect])>>

\* MmapBuf::split_end: <<self afterwards, the Result>>; Ok holds the new handle on the
\* last size bytes
split_end(self, size) ==
    IF self.size < size THEN <<self, Err("SplitFailedNotEnoughSpace")>>
    ELSE <<[self EXCEPT !.size = @ - size],
           Ok([ptr |-> self.ptr + (self.size - size), size |-> size,
               protect |-> self.protect])>>

\* MmapBuf::split_page_start: <<self afterwards, the Result>>; Ok holds the new handle
\* on the first page
split_page_start(self) ==
    IF self.size < 2 * page_size THEN <<self, Err("SplitFailedNotEnoughSpace")>>
    ELSE <<[self EXCEPT !.ptr = @ + page_size,
                        !.size = page_aligned_size(@ - page_size)],
           Ok([ptr |-> self.ptr, size |-> page_size, protect |-> self.protect])>>

\* MmapBuf::split_page_end: <<self afterwards, the Result>>; Ok holds the new handle on
\* the page after the shrunk self
split_page_end(self) ==
    IF self.size < 2 * page_size THEN <<self, Err("SplitFailedNotEnoughSpace")>>
    ELSE LET size == page_aligned_size(self.size - page_size)
         IN  <<[self EXCEPT !.size = size],
               Ok([ptr |-> self.ptr + size, size |-> page_size, protect |-> self.protect])>>

is_executable(self) == "PROT_EXEC" \in self.protect

EVAL_STACK_SIZE == 16 * 1024

\* Executable::new; bytes is what copy_nonoverlapping put at code.ptr
Executable_new(code_bytes, integrity, variables_map, process) ==
    LET stack_and_code == protect_rwx(MmapBuf_new(process.mmap_ptr,
                                                  EVAL_STACK_SIZE + Len(code_bytes)))
        split          == split_end(stack_and_code, Len(code_bytes))
    IN  [code          |-> split[2].val,
         eval_stack    |-> split[1],
         variables_map |-> variables_map,
         integrity     |-> integrity,
         bytes         |-> code_bytes]

\* Compiler::compile: <<the Compiler afterwards, the Result, the ghost native_movs>>
compile(self, rpn, process) ==
    Let(compile_code(self, rpn, process), LAMBDA c :
        LET compiler == [variables_map    |-> c.variables_map,
                         integrity_hasher |-> c.integrity_hasher]
        IN  IF c.status # "ok" THEN <<compiler, Err(c.status), c.native_movs>>
            ELSE IF c.codegen.panic THEN <<compiler, Err("panic: unimplemented"), c.native_movs>>
            ELSE <<compiler,
                   Ok(Executable_new(c.codegen.writer, finalize(c.integrity_hasher),
                                     c.variables_map, process)),
                   c.native_movs>>)

\* Uninitialized without the check: no name is ever found uninitialized
Uninitialized_unchecked(self, variables) == {}

\* the names run finds uninitialized: in the catalog and not supplied
Uninitialized(self, variables) ==
    {self.variables_map[k] : k \in DOMAIN self.variables_map} \ DOMAIN variables

\* vec![0; variables_map.len()] after the loop over the supplied variables, as the
\* memory at its heap block; supplied names outside the catalog are skipped
variables_area(self, variables, vars_ptr) ==
    [a \in {vars_ptr + 8 * (k - 1) : k \in DOMAIN self.variables_map} |->
        LET name == self.variables_map[((a - vars_ptr) \div 8) + 1]
        IN  IF name \in DOMAIN variables THEN variables[name] ELSE Word(0)]

\* the address layout of one call of the blob
Layout(self, process) ==
    [code_ptr   |-> self.code.ptr,
     code_len   |-> self.code.size,
     eval_ptr   |-> self.eval_stack.ptr,
     eval_size  |-> self.eval_stack.size,
     vars_ptr   |-> IF self.variables_map = <<>> THEN 8 ELSE process.heap_ptr,
     vars_size  |-> 8 * Len(self.variables_map),
     stack_top  |-> process.stack_top,
     stack_size |-> process.stack_size,
     helpers    |-> [pow |-> process.pow, factorial |-> process.factorial],
     ret_addr   |-> process.ret_addr]

\* the environment env in which an access outside the mapped memory is answered by oob
Answering(env, oob) == [junk |-> env.junk, caller |-> env.caller, oob |-> oob]

\* the call `func(eval_stack.as_ptr(), variables_area.as_ptr())`
Invoke(self, variables, lay, env) ==
    Execute(Enter(lay, env, variables_area(self, variables, lay.vars_ptr)),
            self.bytes, lay, env, Len(self.bytes))

\* an outcome of run: the Result returned, or nothing and the signal that killed the
\* process in the blob; invoked tells whether the blob was called (ghost)
Outcome(m) ==
    [ret     |-> IF m.status = "returned" THEN Ok(m.regs[Reg64.Rax]) ELSE None,
     invoked |-> TRUE,
     status  |-> m.status]

\* Executable::run: the set of its outcomes.  An access outside the mapped memory is
\* undefined: the kernel answers it with SIGSEGV, or the address happens to be mapped
\* and the run goes on with what it holds, so a run that makes one has both outcomes.
Executable_run(self, variables, process, env) ==
    IF self.code = None
    THEN {[ret |-> Err(<<"CodeNotGenerated">>), invoked |-> FALSE, status |-> "returned"]}
    ELSE IF ~is_executable(self.code)
    THEN {[ret |-> Err(<<"CodeMemoryNotExecutable">>), invoked |-> FALSE,
           status |-> "returned"]}
    ELSE IF self.eval_stack = None
    THEN {[ret |-> Err(<<"EvalStackNotMmaped">>), invoked |-> FALSE, status |-> "returned"]}
    ELSE IF Uninitialized(self, variables) # {}
    THEN {[ret |-> Err(<<"UnititializedVariable", name>>), invoked |-> FALSE,
           status |-> "returned"] : name \in Uninitialized(self, variables)}
    ELSE Let(Layout(self, process), LAMBDA lay :
         Let(Invoke(self, variables, lay, Answering(env, "SIGSEGV")), LAMBDA m :
             IF m.status = "SIGSEGV"
             THEN {Outcome(m), Outcome(Invoke(self, variables, lay, Answering(env, "junk")))}
             ELSE {Outcome(m)}))

(***************************************************************************)
(* The calls of mmap.rs into the operating system.  os.pages is the page   *)
(* table of the process: the protection of every mapped page, by page      *)
(* number; os.munmaps lists the munmap calls made with their results, and  *)
(* os.panic tells whether a drop has panicked.                             *)
(***************************************************************************)

\* the address space before any mapping is made
NoMappings == [pages |-> <<>>, munmaps |-> <<>>, panic |-> FALSE]

\* the numbers of the pages that hold a byte of [ptr, ptr + size)
PagesOf(ptr, size) ==
    IF size = 0 THEN {} ELSE (ptr \div page_size) .. ((ptr + size - 1) \div page_size)

\* libc::mmap(null, size, prot, MAP_PRIVATE | MAP_ANONYMOUS, -1, 0) returning ptr
libc_mmap(os, ptr, size, prot) ==
    [os EXCEPT !.pages = [p \in PagesOf(ptr, size) |-> prot] @@ @]

\* libc::mprotect: 0 and the pages of the range changed, or -1 (EINVAL for a start that
\* is not page-aligned, ENOMEM for a page that is not mapped) and nothing changed
libc_mprotect(os, ptr, size, prot) ==
    IF ptr % page_size # 0 \/ ~(PagesOf(ptr, size) \subseteq DOMAIN os.pages)
    THEN [os |-> os, ret |-> -1]
    ELSE [os  |-> [os EXCEPT !.pages = [p \in PagesOf(ptr, size) |-> prot] @@ @],
          ret |-> 0]

\* libc::munmap: 0 and every page holding a byte of the range unmapped, or -1 (EINVAL
\* for a start that is not page-aligned or a length of 0) and nothing unmapped
libc_munmap(os, ptr, size) ==
    LET rc   == IF ptr % page_size # 0 \/ size = 0 THEN -1 ELSE 0
        made == [ptr |-> ptr, size |-> size, ret |-> rc,
                 pages |-> IF rc = 0 THEN PagesOf(ptr, size) ELSE {}]
    IN  [os  |-> [os EXCEPT !.munmaps = Append(@, made),
                            !.pages = IF rc # 0 THEN @
                                      ELSE [p \in (DOMAIN @) \ PagesOf(ptr, size) |-> @[p]]],
          ret |-> rc]

\* the calls of Executable::new: MmapBuf::new and protect_rwx on the whole mapping
\* (both unwrapped; split_end makes no call)
Executable_new_calls(os, code_bytes, process) ==
    LET buf == MmapBuf_new(process.mmap_ptr, EVAL_STACK_SIZE + Len(code_bytes))
        os1 == libc_mmap(os, buf.ptr, buf.size, buf.protect)
    IN  libc_mprotect(os1, buf.ptr, buf.size, protect_rwx(buf).protect).os

\* Drop for MmapBuf: munmap(self.ptr, self.size), panic!("munmap failed") unless it
\* returns 0
MmapBuf_drop(self, os) ==
    Let(libc_munmap(os, self.ptr, self.size), LAMBDA r :
        IF r.ret # 0 THEN [r.os EXCEPT !.panic = TRUE] ELSE r.os)

\* MmapBuf::protect with its call of mprotect: the handle and the address space
\* afterwards and the Result; self.protect is assigned only when mprotect returned 0
MmapBuf_protect(self, os, prot) ==
    Let(libc_mprotect(os, self.ptr, self.size, prot), LAMBDA r :
        IF r.ret # 0 THEN [self |-> self, os |-> r.os, res |-> Err("MprotectFailed")]
        ELSE [self |-> protect(self, prot), os |-> r.os, res |-> Ok(<<>>)])

\* the drop of an Executable: its fields in the order of their declaration, code and
\* then eval_stack; a panic in the drop of one field unwinds through the drop of the
\* fields after it
Executable_drop(self, os) ==
    LET os1 == IF self.code = None THEN os ELSE MmapBuf_drop(self.code, os)
    IN  IF self.eval_stack = None THEN os1 ELSE MmapBuf_drop(self.eval_stack, os1)

(***************************************************************************)
(* The C interface (ffi.rs).  A buffer is the sequence of its bytes, a     *)
(* null pointer is None.  A panic in an extern "C" function ends the       *)
(* process.                                                                *)
(***************************************************************************)

\* the printable ASCII characters, from the space (32) to the tilde (126); the grave
\* accent (96) is left out, its place held by the empty string
Ascii ==
    <<" ", "!", "\"", "#", "$", "%", "&", "'", "(", ")", "*", "+", ",", "-", ".", "/",
        "0", "1", "2", "3", "4", "5", "6", "7", "8", "9", ":", ";", "<", "=", ">", "?",
        "@", "A", "B", "C", "D", "E", "F", "G", "H", "I", "J", "K", "L", "M", "N", "O",
        "P", "Q", "R", "S", "T", "U", "V", "W", "X", "Y", "Z", "[", "\\", "]", "^",
        "_", "", "a", "b", "c", "d", "e", "f", "g", "h", "i", "j", "k", "l", "m", "n",
        "o", "p", "q", "r", "s", "t", "u", "v", "w", "x", "y", "z", "{", "|", "}",
        "~">>

\* str::as_bytes of a text of ASCII characters
as_bytes(chars) ==
    [k \in DOMAIN chars |-> 31 + (CHOOSE i \in DOMAIN Ascii : Ascii[i] = chars[k])]

\* the bytes of the string literals of the messages
Utf8 ==
    "Invalid input string pointer!" :> <<73, 110, 118, 97, 108, 105, 100, 32, 105, 110,
        112, 117, 116, 32, 115, 116, 114, 105, 110, 103, 32, 112, 111, 105, 110, 116,
        101, 114, 33>> @@
    "Failed to convert the input string to a Rust string!" :> <<70, 97, 105, 108, 101,
        100, 32, 116, 111, 32, 99, 111, 110, 118, 101, 114, 116, 32, 116, 104, 101, 32,
        105, 110, 112, 117, 116, 32, 115, 116, 114, 105, 110, 103, 32, 116, 111, 32,
        97, 32, 82, 117, 115, 116, 32, 115, 116, 114, 105, 110, 103, 33>> @@
    "Failed to tokenize the input: " :> <<70, 97, 105, 108, 101, 100, 32, 116, 111, 32,
        116, 111, 107, 101, 110, 105, 122, 101, 32, 116, 104, 101, 32, 105, 110, 112,
        117, 116, 58, 32>> @@
    "Failed to convert the input to RPN: " :> <<70, 97, 105, 108, 101, 100, 32, 116,
        111, 32, 99, 111, 110, 118, 101, 114, 116, 32, 116, 104, 101, 32, 105, 110,
        112, 117, 116, 32, 116, 111, 32, 82, 80, 78, 58, 32>> @@
    "Failed to compile the RPN expression: " :> <<70, 97, 105, 108, 101, 100, 32, 116,
        111, 32, 99, 111, 109, 112, 105, 108, 101, 32, 116, 104, 101, 32, 82, 80, 78,
        32, 101, 120, 112, 114, 101, 115, 115, 105, 111, 110, 58, 32>> @@
    "Invalid executable pointer!" :> <<73, 110, 118, 97, 108, 105, 100, 32, 101, 120,
        101, 99, 117, 116, 97, 98, 108, 101, 32, 112, 111, 105, 110, 116, 101, 114,
        33>> @@
    "Invalid variables pointer!" :> <<73, 110, 118, 97, 108, 105, 100, 32, 118, 97,
        114, 105, 97, 98, 108, 101, 115, 32, 112, 111, 105, 110, 116, 101, 114, 33>> @@
    "Failed to evaluate the expression: " :> <<70, 97, 105, 108, 101, 100, 32, 116,
        111, 32, 101, 118, 97, 108, 117, 97, 116, 101, 32, 116, 104, 101, 32, 101, 120,
        112, 114, 101, 115, 115, 105, 111, 110, 58, 32>> @@
    "Failed to parse integer" :> <<70, 97, 105, 108, 101, 100, 32, 116, 111, 32, 112,
        97, 114, 115, 101, 32, 105, 110, 116, 101, 103, 101, 114>> @@
    "Unexpected character: '" :> <<85, 110, 101, 120, 112, 101, 99, 116, 101, 100, 32,
        99, 104, 97, 114, 97, 99, 116, 101, 114, 58, 32, 39>> @@
    "'" :> <<39>> @@
    "Mismatched closing parenthesis" :> <<77, 105, 115, 109, 97, 116, 99, 104, 101,
        100, 32, 99, 108, 111, 115, 105, 110, 103, 32, 112, 97, 114, 101, 110, 116,
        104, 101, 115, 105, 115>> @@
    "Mismatched opening parenthesis" :> <<77, 105, 115, 109, 97, 116, 99, 104, 101,
        100, 32, 111, 112, 101, 110, 105, 110, 103, 32, 112, 97, 114, 101, 110, 116,
        104, 101, 115, 105, 115>> @@
    "Not enough operands" :> <<78, 111, 116, 32, 101, 110, 111, 117, 103, 104, 32, 111,
        112, 101, 114, 97, 110, 100, 115>> @@
    "Too many operands" :> <<84, 111, 111, 32, 109, 97, 110, 121, 32, 111, 112, 101,
        114, 97, 110, 100, 115>> @@
    "Unsupported operation: " :> <<85, 110, 115, 117, 112, 112, 111, 114, 116, 101,
        100, 32, 111, 112, 101, 114, 97, 116, 105, 111, 110, 58, 32>> @@
    "Unknown operation: " :> <<85, 110, 107, 110, 111, 119, 110, 32, 111, 112, 101,
        114, 97, 116, 105, 111, 110, 58, 32>> @@
    "CodeNotGenerated" :> <<67, 111, 100, 101, 78, 111, 116, 71, 101, 110, 101, 114,
        97, 116, 101, 100>> @@
    "CodeMemoryNotExecutable" :> <<67, 111, 100, 101, 77, 101, 109, 111, 114, 121, 78,
        111, 116, 69, 120, 101, 99, 117, 116, 97, 98, 108, 101>> @@
    "EvalStackNotMmaped" :> <<69, 118, 97, 108, 83, 116, 97, 99, 107, 78, 111, 116, 77,
        109, 97, 112, 101, 100>> @@
    "UnititializedVariable" :> <<85, 110, 105, 116, 105, 116, 105, 97, 108, 105, 122,
        101, 100, 86, 97, 114, 105, 97, 98, 108, 101>> @@
    "UnknownVariable" :> <<85, 110, 107, 110, 111, 119, 110, 86, 97, 114, 105, 97, 98,
        108, 101>> @@
    "(\"" :> <<40, 34>> @@
    "\")" :> <<34, 41>> @@
    "Plus" :> <<80, 108, 117, 115>> @@
    "Minus" :> <<77, 105, 110, 117, 115>> @@
    "Mult" :> <<77, 117, 108, 116>> @@
    "Div" :> <<68, 105, 118>> @@
    "Pow" :> <<80, 111, 119>> @@
    "Fact" :> <<70, 97, 99, 116>>

\* the text that `{}` gives for an error of type ty (the Display of TokenizerError,
\* RPNConverterError and CompilerError) and `{:?}` for an ExecutableError (its
\* derived Debug)
fmt(ty, e) ==
    IF ty = "TokenizerError"
    THEN IF e[1] = "IntegerParseError" THEN Utf8["Failed to parse integer"]
         ELSE Utf8["Unexpected character: '"] \o as_bytes(<<e[2]>>) \o Utf8["'"]
    ELSE IF ty = "RPNConverterError"
    THEN IF e = "MismatchedClosingParen" THEN Utf8["Mismatched closing parenthesis"]
         ELSE IF e = "MismatchedOpeningParen" THEN Utf8["Mismatched opening parenthesis"]
         ELSE IF e = "NotEnoughOperands" THEN Utf8["Not enough operands"]
         ELSE Utf8["Too many operands"]
    ELSE IF ty = "CompilerError" THEN Utf8["Unknown operation: "] \o Utf8[e]
    ELSE IF e[1] \in {"UnititializedVariable", "UnknownVariable"}
    THEN Utf8[e[1]] \o Utf8["(\""] \o as_bytes(e[2]) \o Utf8["\")"]
    ELSE Utf8[e[1]]

\* a pointer that is not null, to the data v; a null pointer is None
Ptr(v) == [kind |-> "Ptr", to |-> v]

\* fill_error_buffer: the buffer afterwards, and whether the call panicked (the slice
\* output_error[..error.len()] of a shorter buffer, after the buffer was zeroed)
fill_error_buffer(output_error, error) ==
    IF output_error = None THEN [buf |-> None, panic |-> FALSE]
    ELSE LET zeroed == [k \in DOMAIN output_error.to |-> 0]
         IN  IF Len(error) > Len(zeroed) THEN [buf |-> Ptr(zeroed), panic |-> TRUE]
             ELSE [buf   |-> Ptr([k \in DOMAIN zeroed |->
                                     IF k <= Len(error) THEN error[k] ELSE 0]),
                   panic |-> FALSE]

\* a C string that is not UTF-8
NotUtf8 == [kind |-> "NotUtf8"]

\* the operator of the first token of rpn that compile has no arm for
UnknownOp(rpn) ==
    LET Unknown(t) == \/ t.kind = "BinaryOp" /\ t.op = "Fact"
                      \/ t.kind = "UnaryOp" /\ t.op \in {"Mult", "Div", "Pow"}
        k == CHOOSE k \in DOMAIN rpn : Unknown(rpn[k]) /\ \A j \in 1..(k - 1) : ~Unknown(rpn[j])
    IN  rpn[k].op

\* compile_expression: the handle returned (None for null), the two buffers and the
\* Compiler's ghost afterwards; integrity_len is code_integrity_max_len, the hex text
\* of the digest is 64 bytes
compile_expression(input, integrity_len, error_msg, process) ==
    LET Fail(error) ==
            Let(fill_error_buffer(error_msg, error), LAMBDA f :
                [handle |-> None, error_msg |-> f.buf, code_integrity |-> None,
                 panic |-> f.panic, compiled |-> None])
    IN  IF input = None THEN Fail(Utf8["Invalid input string pointer!"])
        ELSE IF input = NotUtf8
        THEN Fail(Utf8["Failed to convert the input string to a Rust string!"])
        ELSE Let(tokenize(Tokenizer_new, input.to).res, LAMBDA tk :
        IF ~tk.ok
        THEN Fail(Utf8["Failed to tokenize the input: "] \o fmt("TokenizerError", tk.err))
        ELSE Let(convert(tk.val), LAMBDA r :
        IF ~r.ok
        THEN Fail(Utf8["Failed to convert the input to RPN: "] \o fmt("RPNConverterError", r.err))
        ELSE Let(compile(Compiler_new, r.val, process), LAMBDA c :
        IF ~c[2].ok
        THEN IF c[2].err = "UnknownOp"
             THEN Fail(Utf8["Failed to compile the RPN expression: "]
                       \o fmt("CompilerError", UnknownOp(r.val)))
             ELSE [handle |-> None, error_msg |-> error_msg, code_integrity |-> None,
                   panic |-> TRUE, compiled |-> None]
        ELSE [handle         |-> IF integrity_len < 64 THEN None ELSE c[2].val,
              error_msg      |-> error_msg,
              code_integrity |-> IF integrity_len < 64 THEN [zeroed |-> integrity_len]
                                 ELSE [hex |-> c[2].val.integrity, zeroed |-> integrity_len - 64],
              panic          |-> integrity_len < 64,
              compiled       |-> c[2].val])))

\* evaluate_expression: the outcomes of the call; exe is the handle, variables the
\* pointer to the map that keys and values give (None for a null keys_ptr)
evaluate_expression(exe, variables, error_msg, process, env) ==
    LET Fail(error) ==
            Let(fill_error_buffer(error_msg, error), LAMBDA f :
                [ret |-> IF f.panic THEN None ELSE Word(0), error_msg |-> f.buf,
                 panic |-> f.panic, status |-> "returned"])
    IN  IF exe = None THEN {Fail(Utf8["Invalid executable pointer!"])}
        ELSE IF variables = None THEN {Fail(Utf8["Invalid variables pointer!"])}
        ELSE {IF r.status # "returned"
              THEN [ret |-> None, error_msg |-> error_msg, panic |-> FALSE, status |-> r.status]
              ELSE IF r.ret.ok
              THEN [ret |-> r.ret.val, error_msg |-> error_msg, panic |-> FALSE,
                    status |-> "returned"]
              ELSE Fail(Utf8["Failed to evaluate the expression: "]
                        \o fmt("ExecutableError", r.ret.err)) :
              r \in Executable_run(exe, variables.to, process, env)}

\* free_executable: the operating system's state after it
free_executable(exe, os) == IF exe = None THEN os ELSE Executable_drop(exe, os)

(***************************************************************************)
(* The state machine.  A behaviour follows one input through the pipeline  *)
(* of main.rs, shell.rs and ffi.rs: text -> tokenize -> convert -> compile *)
(* -> run.  Each specification below draws the input of one stage in its   *)
(* initial state and lets the later stages act on it.                      *)
(***************************************************************************)

VARIABLES
    text,       \* the input text
    tokenizer,  \* the Tokenizer: prev and variables
    tokens,     \* None, or the Result of Tokenizer::tokenize
    rpn,        \* None, or the Result of RpnConverter::convert
    process,    \* the address space the program runs in
    compiler,   \* the Compiler: variables_map and integrity_hasher
    exe,        \* None, or the Result of Compiler::compile
    variables,  \* the map of variables the caller supplies to run
    result,     \* None, or the outcome of Executable::run
    log,        \* ghost: one record per compile made so far
    os,         \* the operating system's page table of the process, and its munmap calls
    runs,       \* ghost: the number of runs of the Executable made so far
    ffi,        \* the caller's side of the C interface: its buffers and the last return
    asm,        \* the last call on an X86Asm: the method, its operands, the X86Asm after
    mm          \* the live MmapBuf handles of the process and the last call on one

vars ==
    <<text, tokenizer, tokens, rpn, process, compiler, exe, variables, result, log, os,
      runs, ffi, asm, mm>>

front == <<text, tokenizer, tokens>>

back == <<process, compiler, exe, variables, result, log, os, runs, ffi>>

low == <<asm, mm>>

\* no call on an X86Asm yet
NoAsm == [call |-> "none", dst |-> None, src |-> None, out |-> None]

\* no MmapBuf yet
NoHandles ==
    [live |-> <<>>,
     call |-> [op |-> "none", handle |-> 0, arg |-> 0, before |-> <<>>, res |-> None]]

\* the C interface before any call: the caller's error buffer, nothing returned
NoCall(error_msg) ==
    [call |-> "none", error_msg |-> error_msg, code_integrity |-> None, ret |-> None,
     panic |-> FALSE]

\* the longest text drawn, in characters
MaxText == 4

\* the longest token stream drawn from all tokens
MaxTokens == 4

\* the most binary operators in a drawn stream of alternating operands and operators
MaxOperators == 3

\* the most binary and unary operators in a drawn postfix program without variables
MaxBinary == 2

MaxUnary == 1

\* the most operators in a drawn postfix program with variables
MaxVarOps == 1

\* the most compiles in one behaviour
MaxCompiles == 2

\* the most runs of one Executable
MaxRuns == 3

\* the longest error buffer a caller of the C interface passes, in bytes
MaxErrorLen == 56

\* sequences over S of length at most n
SeqsUpTo(S, n) == UNION {[1..k -> S] : k \in 0..n}

Alphabet == {"1", "x", "+", "-", "*", "^", "!", "(", ")", " "}

Texts == SeqsUpTo(Alphabet, MaxText)

\* i64::MAX
MAX == [k \in 1..8 |-> IF k = 8 THEN 127 ELSE 255]

\* i64::MIN
MIN == [k \in 1..8 |-> IF k = 8 THEN 128 ELSE 0]

BinaryOps == {"Plus", "Minus", "Mult", "Div", "Pow"}

TokenAlphabet ==
    {Number(Word(1)), Variable(<<"x">>), UnaryOp("Minus"), UnaryOp("Fact"),
     BinaryOp("Plus"), BinaryOp("Mult"), BinaryOp("Pow"), LParen, RParen}

\* operand 1, op, operand 2, op, ... with n binary operators; the k-th operand is k
AlternatingStreams(n) ==
    {[k \in 1..(2 * Len(ops) + 1) |->
        IF k % 2 = 1 THEN Number(Word((k + 1) \div 2)) ELSE BinaryOp(ops[k \div 2])] :
     ops \in [1..n -> BinaryOps]}

TokenStreams ==
    SeqsUpTo(TokenAlphabet, MaxTokens) \cup UNION {AlternatingStreams(n) : n \in 0..MaxOperators}

\* the postfix forms of the expressions over atoms with at most nb binary operators
\* and at most nu unary operators from unary
RECURSIVE Postfix(_, _, _, _)
Postfix(atoms, unary, nb, nu) ==
    {<<a>> : a \in atoms}
    \cup (IF nu = 0 THEN {}
          ELSE {e \o <<UnaryOp(o)>> : e \in Postfix(atoms, unary, nb, nu - 1), o \in unary})
    \cup (IF nb = 0 THEN {}
          ELSE UNION {{l \o r \o <<BinaryOp(o)>> :
                         l \in Postfix(atoms, unary, b, u),
                         r \in Postfix(atoms, unary, nb - 1 - b, nu - u),
                         o \in BinaryOps} :
                      b \in 0..(nb - 1), u \in 0..nu})

\* the literals of the drawn programs without variables
Literals == {Number(Word(1)), Number(MAX)}

LiteralPrograms(atoms) == Postfix(atoms, {"Minus", "Fact"}, MaxBinary, MaxUnary)

VarNames == {<<"x">>, <<"y">>}

\* programs over x, y and a literal with MaxVarOps operators in all
VariablePrograms ==
    UNION {Postfix({Variable(n) : n \in VarNames} \cup {Number(Word(2))}, {"Minus", "Fact"},
                   nb, MaxVarOps - nb) : nb \in 0..MaxVarOps}

\* the maps a caller supplies: some of x, y and a name no program uses
SuppliedMaps ==
    UNION {[S -> {Word(0), Word(3)}] : S \in SUBSET (VarNames \cup {<<"z">>})}

\* decimal literals around i64::MAX = 9223372036854775807 and 2^64, and with leading zeros
DecimalLiterals ==
    {<<"0">>,
     <<"7">>,
     <<"1", "0">>,
     <<"0", "0", "0">>,
     <<"9", "2", "2", "3", "3", "7", "2", "0", "3", "6", "8", "5", "4", "7", "7", "5", "8", "0", "6">>,
     <<"9", "2", "2", "3", "3", "7", "2", "0", "3", "6", "8", "5", "4", "7", "7", "5", "8", "0", "7">>,
     <<"9", "2", "2", "3", "3", "7", "2", "0", "3", "6", "8", "5", "4", "7", "7", "5", "8", "0", "8">>,
     <<"9", "2", "2", "3", "3", "7", "2", "0", "3", "6", "8", "5", "4", "7", "7", "5", "8", "1", "7">>,
     <<"1", "8", "4", "4", "6", "7", "4", "4", "0", "7", "3", "7", "0", "9", "5", "5", "1", "6", "1", "6">>,
     <<"1", "8", "4", "4", "6", "7", "4", "4", "0", "7", "3", "7", "0", "9", "5", "5", "1", "6", "1", "7">>,
     <<"9", "9", "9", "9", "9", "9", "9", "9", "9", "9", "9", "9", "9", "9", "9", "9", "9", "9", "9", "9">>,
     <<"0", "0", "0", "0", "0", "0", "0", "0", "0", "0", "0", "0", "0", "0", "0", "0", "0", "0", "0", "0", "0", "0", "9">>}

\* literals with an x after the first digit, and with an X or an x elsewhere
HexLiterals ==
    {<<"0", "x">>,
     <<"0", "x", "1", "0">>,
     <<"0", "x", "f", "F">>,
     <<"0", "x", "7", "f", "f", "f", "f", "f", "f", "f", "f", "f", "f", "f", "f", "f", "f", "f">>,
     <<"0", "x", "8", "0", "0", "0", "0", "0", "0", "0", "0", "0", "0", "0", "0", "0", "0", "0">>,
     <<"0", "X", "1", "0">>,
     <<"1", "x", "1", "0">>,
     <<"7", "x">>,
     <<"1", "2", "x", "3">>,
     <<"0", "x", "g">>}

\* names, and a character that no token starts with
Words ==
    {<<"b">>,
     <<"x", "1">>,
     <<"_", "a">>,
     <<"$">>}

\* what stands before and after the literal or word in a text
Before == {<<>>, <<"(">>, <<"-", " ">>, <<"x", "*">>}

After == {<<>>, <<" ", "b">>, <<"$">>, <<"+", "1">>}

\* the text of test_tokenizer_unexpected_char: 1 + 2 * 3 - 4 / 5 b
TestText ==
    <<"1", " ", "+", " ", "2", " ", "*", " ", "3", " ", "-", " ", "4", " ", "/", " ", "5", " ", "b">>

LexTexts ==
    {b \o l \o a : b \in Before, l \in DecimalLiterals \cup HexLiterals \cup Words, a \in After}
    \cup {TestText}

\* the input pointers a caller of compile_expression passes: null, a C string that
\* is not UTF-8, and texts that fail in the tokenizer, fail in the converter, compile
FfiInputs ==
    {None, NotUtf8}
    \cup {Ptr(t) : t \in {<<"$">>,
                         <<"9", "2", "2", "3", "3", "7", "2", "0", "3", "6", "8", "5", "4",
                           "7", "7", "5", "8", "0", "8">>,
                         <<")">>, <<"(">>, <<"+">>, <<"1", " ", "1">>,
                         <<"1">>, <<"x">>, <<"2", "-", "x">>}}

\* the error buffers a caller passes: null, or zero-filled of up to MaxErrorLen bytes
ErrorBuffers == {None} \cup {Ptr([k \in 1..n |-> 0]) : n \in 0..MaxErrorLen}

\* the lengths of the integrity buffer a caller passes: too short for the hex text
\* of the digest, as long, longer
IntegrityLens == {0, 64, 65}

\* the keys_ptr and values_ptr a caller of evaluate_expression passes
FfiVariables == {None, Ptr(<<>>), Ptr([n \in {<<"x">>} |-> Word(3)])}

\* the longest token stream converted, compiled and run
MaxEvalTokens == 3

\* the token streams converted, compiled and run
EvalStreams ==
    SeqsUpTo({Number(Word(2)), Variable(<<"x">>), UnaryOp("Minus"), UnaryOp("Fact"),
              BinaryOp("Plus"), BinaryOp("Pow"), LParen, RParen}, MaxEvalTokens)

\* the most handles alive at once
MaxHandles == 3

\* the sizes asked of MmapBuf::new: one page after rounding, and three
NewSizes == {1, 3 * page_size}

\* the sizes asked of split_end: nothing, part of a page, a page, more than a page,
\* more than any handle has
SplitSizes == {0, 100, page_size, page_size + 100, 4 * page_size}

\* PROT_NONE, and the protections of protect_no_access, protect_rx, protect_rwx,
\* protect_rw
PROT_NONE == {}

Protections == {PROT_NONE, MAP_RX, MAP_RWX, MAP_RW}

\* the operands of the expressions that show the precedence of the unary minus
Atoms == {Number(Word(1)), Number(Word(2)), Variable(<<"x">>), Variable(<<"y">>)}

\* - a o b for every binary operator o, a ^ b ! and - a !
PrecedenceStreams ==
    {<<UnaryOp("Minus"), a, BinaryOp(o), b>> :
        a \in Atoms, b \in Atoms, o \in {"Plus", "Minus", "Mult", "Div", "Pow"}}
    \cup {<<a, BinaryOp("Pow"), b, UnaryOp("Fact")>> : a \in Atoms, b \in Atoms}
    \cup {<<UnaryOp("Minus"), a, UnaryOp("Fact")>> : a \in Atoms}

\* the longest input handed to a Tokenizer that is used again
MaxInput == 3

\* the inputs handed, one after the other, to one Tokenizer
Inputs == SeqsUpTo({"1", "x", "-", "(", ")", " "}, MaxInput)

\* 2^31 and 2^32 as 64-bit values
TwoTo31 == [k \in 1..8 |-> IF k = 4 THEN 128 ELSE 0]

TwoTo32 == [k \in 1..8 |-> IF k = 5 THEN 1 ELSE 0]

\* the immediates drawn: inside the range of an i32 (0, 8, 0x1234, 2^31 - 1, -1,
\* -2^31) and outside it (2^31, 2^32, 2^32 + 8, -2^31 - 1, i64::MAX, i64::MIN)
Immediates ==
    {Word(0), Word(8), Word(4660), wrapping_sub(TwoTo31, Word(1)), wrapping_neg(Word(1)),
     wrapping_neg(TwoTo31),
     TwoTo31, TwoTo32, wrapping_add(TwoTo32, Word(8)),
     wrapping_sub(wrapping_neg(TwoTo31), Word(1)), MAX, MIN}

\* the displacements drawn (i32): 0, 0x1337, 0x24 (a byte that reads as a SIB byte
\* with base RSP and no index), -8
Displacements == {to_le_bytes(0, 4), to_le_bytes(4919, 4), to_le_bytes(36, 4), <<248, 255, 255, 255>>}

\* the operands drawn
Operands ==
    {Reg(r) : r \in 0..15}
    \cup {Imm64(i) : i \in Immediates}
    \cup {MemDisp(b, d) : b \in 0..15, d \in Displacements}

\* the calls drawn on a fresh X86Asm
AsmCalls ==
    {[call |-> c, dst |-> d, src |-> None, out |-> None] :
        c \in {"neg", "mul", "imul", "div", "idiv", "call", "push", "pop"}, d \in Operands}
    \cup {[call |-> c, dst |-> d, src |-> x, out |-> None] :
            c \in {"add", "sub", "mov"}, d \in Operands, x \in Operands}

\* two address spaces that differ in where the helpers and the mappings are
Processes ==
    {[pow        |-> <<16, 50, 84, 118, 152, 85, 0, 0>>,
      factorial  |-> <<96, 50, 84, 118, 152, 85, 0, 0>>,
      ret_addr   |-> <<33, 67, 84, 118, 152, 85, 0, 0>>,
      mmap_ptr   |-> 256 * page_size,
      heap_ptr   |-> 64 * page_size + 16,
      stack_top  |-> 1024 * page_size - 72,
      stack_size |-> 2 * page_size],
     [pow        |-> <<16, 50, 20, 240, 205, 171, 0, 0>>,
      factorial  |-> <<96, 50, 20, 240, 205, 171, 0, 0>>,
      ret_addr   |-> <<33, 67, 20, 240, 205, 171, 0, 0>>,
      mmap_ptr   |-> 512 * page_size,
      heap_ptr   |-> 96 * page_size + 32,
      stack_top  |-> 2048 * page_size - 40,
      stack_size |-> 2 * page_size]}

\* what the environment of a call of the blob leaves open: the value found in memory
\* outside the mappings and in registers a callee may change, and the caller's
\* registers at the call
Envs ==
    [junk   : {[k \in 1..8 |-> 204]},
     caller : {[r \in 0..15 |-> Word(1000 + r)]}]

\* the state in which the stages before some stage have run (or their results were
\* drawn) and nothing has been compiled
Start(t, tk, r, v, p) ==
    /\ text = t
    /\ tokenizer = Tokenizer_new
    /\ tokens = tk
    /\ rpn = r
    /\ process = p
    /\ compiler = Compiler_new
    /\ exe = None
    /\ variables = v
    /\ result = None
    /\ log = <<>>
    /\ os = NoMappings
    /\ runs = 0
    /\ ffi = NoCall(None)
    /\ asm = NoAsm
    /\ mm = NoHandles

\* Tokenizer::tokenize on the text
Tokenize ==
    /\ tokens = None
    /\ \E r \in {tokenize(tokenizer, text)} :
           /\ tokens' = r.res
           /\ tokenizer' = r.self
    /\ UNCHANGED <<text, rpn>>
    /\ UNCHANGED back
    /\ UNCHANGED low

\* RpnConverter::convert on the tokens
Convert ==
    /\ tokens # None
    /\ tokens.ok
    /\ rpn = None
    /\ rpn' = convert(tokens.val)
    /\ UNCHANGED front
    /\ UNCHANGED back
    /\ UNCHANGED low

\* Compiler::compile on the postfix expression, the Compiler being fresh or used before
Compile ==
    /\ rpn # None
    /\ rpn.ok
    /\ Len(log) < MaxCompiles
    /\ \E c \in {compile(compiler, rpn.val, process)} :
           /\ compiler' = c[1]
           /\ exe' = c[2]
           /\ log' = Append(log,
                  [rpn         |-> rpn.val,
                   process     |-> process,
                   before      |-> compiler,
                   fed         |-> SubSeq(c[1].integrity_hasher,
                                          Len(compiler.integrity_hasher) + 1,
                                          Len(c[1].integrity_hasher)),
                   code        |-> IF c[2].ok THEN c[2].val.bytes ELSE <<>>,
                   native_movs |-> c[3],
                   integrity   |-> IF c[2].ok THEN c[2].val.integrity ELSE None])
           /\ os' = IF c[2].ok THEN Executable_new_calls(os, c[2].val.bytes, process) ELSE os
    /\ result' = None
    /\ runs' = 0
    /\ UNCHANGED front
    /\ UNCHANGED <<rpn, process, variables, ffi>>
    /\ UNCHANGED low

\* Compiler::new for the next compile (main.rs, shell.rs and ffi.rs make one per input)
NewCompiler ==
    /\ compiler # Compiler_new
    /\ Len(log) < MaxCompiles
    /\ compiler' = Compiler_new
    /\ UNCHANGED front
    /\ UNCHANGED <<rpn, process, exe, variables, result, log, os, runs, ffi>>
    /\ UNCHANGED low

\* the program is started again, its helpers and mappings at other addresses
Restart ==
    /\ log # <<>>
    /\ Len(log) < MaxCompiles
    /\ \E p \in Processes \ {process} : process' = p
    /\ compiler' = Compiler_new
    /\ exe' = None
    /\ result' = None
    /\ os' = NoMappings
    /\ runs' = 0
    /\ UNCHANGED front
    /\ UNCHANGED <<rpn, variables, log, ffi>>
    /\ UNCHANGED low

\* Executable::run with the supplied variables
Run ==
    /\ exe # None
    /\ exe.ok
    /\ result = None
    /\ \E env \in Envs : result' \in Executable_run(exe.val, variables, process, env)
    /\ runs' = 1
    /\ UNCHANGED front
    /\ UNCHANGED <<rpn, process, compiler, exe, variables, log, os, ffi>>
    /\ UNCHANGED low

\* Executable::run once more with the same variables (the loop of main.rs and shell.rs
\* runs one Executable again and again); a run that a signal ended has no successor
Rerun ==
    /\ exe # None
    /\ exe.ok
    /\ result # None
    /\ result.status = "returned"
    /\ runs < MaxRuns
    /\ ~os.panic
    /\ \E env \in Envs : result' \in Executable_run(exe.val, variables, process, env)
    /\ runs' = runs + 1
    /\ UNCHANGED front
    /\ UNCHANGED <<rpn, process, compiler, exe, variables, log, os, ffi>>
    /\ UNCHANGED low

\* the Executable goes out of scope (or drop(exe)): its mappings are released
Drop ==
    /\ exe # None
    /\ exe.ok
    /\ IF result = None THEN TRUE ELSE result.status = "returned"
    /\ ~os.panic
    /\ os' = Executable_drop(exe.val, os)
    /\ exe' = None
    /\ UNCHANGED front
    /\ UNCHANGED <<rpn, process, compiler, variables, result, log, runs, ffi>>
    /\ UNCHANGED low

\* the caller hands the Compiler it has used another postfix expression to compile
\* (compile takes &mut self and an rpn; nothing of the Compiler changes in between)
NextExpression ==
    /\ log # <<>>
    /\ Len(log) < MaxCompiles
    /\ \E e \in VariablePrograms : rpn' = Ok(e)
    /\ rpn' # rpn
    /\ UNCHANGED front
    /\ UNCHANGED back
    /\ UNCHANGED low

\* a call of compile_expression with the input and the error buffer of the caller
CompileExpression ==
    /\ ffi.call = "none"
    /\ \E n \in IntegrityLens :
         \E r \in {compile_expression(text, n, ffi.error_msg, process)} :
           /\ ffi' = [call |-> "compile_expression", error_msg |-> r.error_msg,
                      code_integrity |-> r.code_integrity, ret |-> r.handle,
                      panic |-> r.panic]
           /\ exe' = IF r.handle = None THEN None ELSE Ok(r.handle)
           /\ os' = IF r.compiled = None THEN os
                    ELSE Executable_new_calls(os, r.compiled.bytes, process)
    /\ UNCHANGED front
    /\ UNCHANGED <<rpn, process, compiler, variables, result, log, runs>>
    /\ UNCHANGED low

\* a call of evaluate_expression with the handle that compile_expression returned
\* (null when it failed or was not called) and the same error buffer
EvaluateExpression ==
    /\ ~ffi.panic
    /\ runs < MaxRuns
    /\ IF result = None THEN TRUE ELSE result.status = "returned"
    /\ \E v \in FfiVariables, env \in Envs :
         \E o \in evaluate_expression(IF exe = None THEN None ELSE exe.val, v,
                                      ffi.error_msg, process, env) :
           /\ ffi' = [ffi EXCEPT !.call = "evaluate_expression",
                                 !.error_msg = o.error_msg, !.ret = o.ret,
                                 !.panic = o.panic]
           /\ result' = [status |-> o.status, ret |-> o.ret]
           /\ variables' = v
    /\ runs' = runs + 1
    /\ UNCHANGED front
    /\ UNCHANGED <<rpn, process, compiler, exe, log, os>>
    /\ UNCHANGED low

\* a call of free_executable with the handle
FreeExecutable ==
    /\ ~ffi.panic
    /\ exe # None
    /\ IF result = None THEN TRUE ELSE result.status = "returned"
    /\ \E o \in {free_executable(exe.val, os)} :
           /\ os' = o
           /\ ffi' = [ffi EXCEPT !.call = "free_executable", !.ret = None,
                                 !.panic = o.panic]
    /\ exe' = None
    /\ UNCHANGED front
    /\ UNCHANGED <<rpn, process, compiler, variables, result, log, runs>>
    /\ UNCHANGED low

\* the caller hands the next input to the Tokenizer it already has: tokenize takes
\* &mut self, the Tokenizer lives on between the calls
NextInput ==
    /\ tokens # None
    /\ \E t \in Inputs : text' = t
    /\ tokens' = None
    /\ UNCHANGED <<tokenizer, rpn>>
    /\ UNCHANGED back
    /\ UNCHANGED low

\* the address at which mmap places the next mapping: the page after the highest
\* mapped one
NextMapping ==
    IF DOMAIN os.pages = {} THEN process.mmap_ptr
    ELSE page_size * (1 + CHOOSE p \in DOMAIN os.pages : \A q \in DOMAIN os.pages : q <= p)

\* the handles after a split of handle h that returned r = <<self afterwards, Result>>
AfterSplit(h, r) ==
    IF r[2].ok THEN Append([mm.live EXCEPT ![h] = r[1]], r[2].val)
    ELSE [mm.live EXCEPT ![h] = r[1]]

\* the record of a call on handle h
Called(op, h, arg, res) ==
    [op |-> op, handle |-> h, arg |-> arg, before |-> mm.live, res |-> res]

\* MmapBuf::new(size), the handle kept alive
MmapNew ==
    /\ Len(mm.live) < MaxHandles
    /\ \E size \in NewSizes :
           LET buf == MmapBuf_new(NextMapping, size)
           IN  /\ os' = libc_mmap(os, buf.ptr, buf.size, buf.protect)
               /\ mm' = [live |-> Append(mm.live, buf),
                         call |-> Called("new", Len(mm.live) + 1, size, Ok(buf))]
    /\ UNCHANGED front
    /\ UNCHANGED <<rpn, process, compiler, exe, variables, result, log, runs, ffi, asm>>

\* split_end(size) on a live handle, the returned handle kept alive
SplitEnd ==
    /\ Len(mm.live) < MaxHandles
    /\ \E h \in DOMAIN mm.live, size \in SplitSizes :
           LET r == split_end(mm.live[h], size)
           IN  mm' = [live |-> AfterSplit(h, r), call |-> Called("split_end", h, size, r[2])]
    /\ UNCHANGED front
    /\ UNCHANGED <<rpn, asm>>
    /\ UNCHANGED back

\* split_page_start() on a live handle, the returned handle kept alive
SplitPageStart ==
    /\ Len(mm.live) < MaxHandles
    /\ \E h \in DOMAIN mm.live :
           LET r == split_page_start(mm.live[h])
           IN  mm' = [live |-> AfterSplit(h, r),
                      call |-> Called("split_page_start", h, 0, r[2])]
    /\ UNCHANGED front
    /\ UNCHANGED <<rpn, asm>>
    /\ UNCHANGED back

\* split_page_end() on a live handle, the returned handle kept alive
SplitPageEnd ==
    /\ Len(mm.live) < MaxHandles
    /\ \E h \in DOMAIN mm.live :
           LET r == split_page_end(mm.live[h])
           IN  mm' = [live |-> AfterSplit(h, r),
                      call |-> Called("split_page_end", h, 0, r[2])]
    /\ UNCHANGED front
    /\ UNCHANGED <<rpn, asm>>
    /\ UNCHANGED back

\* protect_no_access, protect_rx, protect_rwx or protect_rw on a live handle
Protect ==
    /\ \E h \in DOMAIN mm.live, prot \in Protections :
           LET r == MmapBuf_protect(mm.live[h], os, prot)
           IN  /\ os' = r.os
               /\ mm' = [live |-> [mm.live EXCEPT ![h] = r.self],
                         call |-> Called("protect", h, prot, r.res)]
    /\ UNCHANGED front
    /\ UNCHANGED <<rpn, process, compiler, exe, variables, result, log, runs, ffi, asm>>

\* the drawn call of a method of X86Asm on a fresh X86Asm
Assemble ==
    /\ asm.call # "none"
    /\ asm.out = None
    /\ asm' = [asm EXCEPT !.out = X86Asm_call(X86Asm_new, asm)]
    /\ UNCHANGED front
    /\ UNCHANGED rpn
    /\ UNCHANGED back
    /\ UNCHANGED mm

\* the front end on every text
InitFront == \E t \in Texts, p \in Processes : Start(t, None, None, <<>>, p)

NextFront == Tokenize \/ Convert

SpecFront == InitFront /\ [][NextFront]_vars

\* the converter on every token stream
InitConv == \E ts \in TokenStreams, p \in Processes : Start(<<>>, Ok(ts), None, <<>>, p)

NextConv == Convert

SpecConv == InitConv /\ [][NextConv]_vars

\* one compile by a fresh Compiler and one run of every postfix program without
\* variables, no variable supplied
InitJit ==
    \E e \in LiteralPrograms(Literals) :
        Start(<<>>, None, Ok(e), <<>>, CHOOSE p \in Processes : p.mmap_ptr = 256 * page_size)

NextJit == (Compile /\ log = <<>>) \/ Run

SpecJit == InitJit /\ [][NextJit]_vars

\* compile and run on programs with variables and every supplied map
InitVars ==
    \E e \in VariablePrograms, v \in SuppliedMaps, p \in Processes :
        Start(<<>>, None, Ok(e), v, p)

NextVars == Compile \/ Run

SpecVars == InitVars /\ [][NextVars]_vars

\* compiles of one program by fresh and used Compilers, in one process and in another
InitDigest == \E e \in VariablePrograms, p \in Processes : Start(<<>>, None, Ok(e), <<>>, p)

NextDigest == Compile \/ NewCompiler \/ Restart

SpecDigest == InitDigest /\ [][NextDigest]_vars

\* compiles of one program and then of another by the same Compiler, in one process
InitCatalog ==
    \E e \in VariablePrograms :
        Start(<<>>, None, Ok(e), <<>>, CHOOSE p \in Processes : p.mmap_ptr = 256 * page_size)

NextCatalog == Compile \/ NextExpression

SpecCatalog == InitCatalog /\ [][NextCatalog]_vars

\* the tokenizer on texts with literals and words
InitLex ==
    \E t \in LexTexts :
        Start(t, None, None, <<>>, CHOOSE p \in Processes : p.mmap_ptr = 256 * page_size)

NextLex == Tokenize

SpecLex == InitLex /\ [][NextLex]_vars

\* a caller of the C interface: one compile_expression, then evaluate_expression
\* again and again, and free_executable, all with one error buffer
InitFfi ==
    \E i \in FfiInputs, b \in ErrorBuffers :
        /\ text = i
        /\ tokenizer = Tokenizer_new
        /\ tokens = None
        /\ rpn = None
        /\ process = CHOOSE p \in Processes : p.mmap_ptr = 256 * page_size
        /\ compiler = Compiler_new
        /\ exe = None
        /\ variables = None
        /\ result = None
        /\ log = <<>>
        /\ os = NoMappings
        /\ runs = 0
        /\ ffi = NoCall(b)
        /\ asm = NoAsm
        /\ mm = NoHandles

NextFfi == CompileExpression \/ EvaluateExpression \/ FreeExecutable

SpecFfi == InitFfi /\ [][NextFfi]_vars

\* the converter on the expressions that show the precedence of the unary minus
InitPrec ==
    \E ts \in PrecedenceStreams :
        Start(<<>>, Ok(ts), None, <<>>, CHOOSE p \in Processes : p.mmap_ptr = 256 * page_size)

NextPrec == Convert

SpecPrec == InitPrec /\ [][NextPrec]_vars

\* token streams through convert, compile and run, a value supplied for x
InitEval ==
    \E ts \in EvalStreams :
        Start(<<>>, Ok(ts), None, [n \in {<<"x">>} |-> Word(3)],
              CHOOSE p \in Processes : p.mmap_ptr = 256 * page_size)

NextEval == Convert \/ (Compile /\ log = <<>>) \/ Run

SpecEval == InitEval /\ [][NextEval]_vars

\* the handles of mmap.rs under every sequence of calls
InitMmap ==
    Start(<<>>, None, None, <<>>, CHOOSE p \in Processes : p.mmap_ptr = 256 * page_size)

NextMmap == MmapNew \/ SplitEnd \/ SplitPageStart \/ SplitPageEnd \/ Protect

SpecMmap == InitMmap /\ [][NextMmap]_vars

\* one Tokenizer on one input after the other
InitReuse ==
    \E t \in Inputs :
        Start(t, None, None, <<>>, CHOOSE p \in Processes : p.mmap_ptr = 256 * page_size)

NextReuse == Tokenize \/ NextInput

SpecReuse == InitReuse /\ [][NextReuse]_vars

\* the assembler on every drawn call
InitAsm ==
    \E c \in AsmCalls :
        /\ text = <<>>
        /\ tokenizer = Tokenizer_new
        /\ tokens = None
        /\ rpn = None
        /\ process = CHOOSE p \in Processes : p.mmap_ptr = 256 * page_size
        /\ compiler = Compiler_new
        /\ exe = None
        /\ variables = <<>>
        /\ result = None
        /\ log = <<>>
        /\ os = NoMappings
        /\ runs = 0
        /\ ffi = NoCall(None)
        /\ asm = c
        /\ mm = NoHandles

NextAsm == Assemble

SpecAsm == InitAsm /\ [][NextAsm]_vars

\* the life of an Executable: made by a compile, run again and again, dropped
InitLife ==
    \E e \in VariablePrograms, v \in SuppliedMaps :
        Start(<<>>, None, Ok(e), v, CHOOSE p \in Processes : p.mmap_ptr = 256 * page_size)

NextLife == (Compile /\ log = <<>>) \/ Run \/ Rerun \/ Drop

SpecLife == InitLife /\ [][NextLife]_vars

(***************************************************************************)
(* Properties of the tokenizer and the converter.                          *)
(***************************************************************************)

\* tokenize has returned its tokens
Tokenized == tokens # None /\ tokens.ok

\* a token that a '+' or a '-' of the input becomes
IsSign(t) == t.kind \in {"UnaryOp", "BinaryOp"} /\ t.op \in {"Plus", "Minus"}

\* C5: in the tokens tokenize returns, the token of a '+' or a '-' is a BinaryOp when
\* the token before it is a Number, a Variable or an RParen, and a UnaryOp in every
\* other case (another token before it, or none)
C5_SignByPreviousToken ==
    Tokenized =>
        \A k \in 1..Len(tokens.val) :
            IsSign(tokens.val[k]) =>
                (tokens.val[k].kind = "BinaryOp"
                    <=> (k > 1 /\ tokens.val[k - 1].kind \in {"Number", "Variable", "RParen"}))

\* the depth of the abstract stack after each token of e, from depth d at token i:
\* an operand pushes one, a binary operator pops two and pushes one, a unary operator
\* pops one and pushes one; -1 once a pop finds too few values or a step leaves none
RECURSIVE Replay(_, _, _)
Replay(e, i, d) ==
    IF i > Len(e) THEN d
    ELSE IF e[i].kind \in {"Number", "Variable"} THEN Replay(e, i + 1, d + 1)
    ELSE IF e[i].kind = "BinaryOp" /\ d >= 2 THEN Replay(e, i + 1, d - 1)
    ELSE IF e[i].kind = "UnaryOp" /\ d >= 1 THEN Replay(e, i + 1, d)
    ELSE -1

\* C6: a token sequence that convert returns as Ok holds only Number, Variable, UnaryOp
\* and BinaryOp tokens, and its replay on the empty abstract stack never pops from an
\* empty stack, never leaves the stack empty after a step and ends with one value
C6_OkOutputIsPostfix ==
    (rpn # None /\ rpn.ok) =>
        /\ \A k \in 1..Len(rpn.val) :
               rpn.val[k].kind \in {"Number", "Variable", "UnaryOp", "BinaryOp"}
        /\ Replay(rpn.val, 1, 0) = 1

\* C7: convert on the tokens of an empty input (no token at all) fails with
\* NotEnoughOperands
C7_EmptyInputRejected ==
    (Tokenized /\ tokens.val = <<>> /\ rpn # None) => rpn = Err("NotEnoughOperands")

\* the text t from character i on continues a well-formed infix expression, read as
\* expr ::= operand | prefix-unary expr | expr '!' | expr binary-op expr | '(' expr ')'
\* with operands [0-9]+ and [A-Za-z_][A-Za-z0-9_]*: after is TRUE when an expr has
\* just ended (a binary operator, '!' or ')' may follow), FALSE when one must begin;
\* cur is the kind of operand the character before i belongs to ("" for none), and
\* depth the count of parentheses still open
RECURSIVE WellFormedFrom(_, _, _, _, _)
WellFormedFrom(t, i, after, cur, depth) ==
    IF i > Len(t) THEN after /\ depth = 0
    ELSE LET c == t[i]
         IN  IF c = " " THEN WellFormedFrom(t, i + 1, after, "", depth)
             ELSE IF c \in {"0", "1", "2", "3", "4", "5", "6", "7", "8", "9"}
             THEN IF cur # "" THEN WellFormedFrom(t, i + 1, TRUE, cur, depth)
                  ELSE ~after /\ WellFormedFrom(t, i + 1, TRUE, "number", depth)
             ELSE IF c \in {"x", "y", "_"}
             THEN IF cur = "name" THEN WellFormedFrom(t, i + 1, TRUE, cur, depth)
                  ELSE ~after /\ WellFormedFrom(t, i + 1, TRUE, "name", depth)
             ELSE IF c = "("
             THEN ~after /\ WellFormedFrom(t, i + 1, FALSE, "", depth + 1)
             ELSE IF c = ")"
             THEN after /\ depth > 0 /\ WellFormedFrom(t, i + 1, TRUE, "", depth - 1)
             ELSE IF c = "!"
             THEN after /\ WellFormedFrom(t, i + 1, TRUE, "", depth)
             ELSE IF c \in {"+", "-"}
             THEN WellFormedFrom(t, i + 1, FALSE, "", depth)
             ELSE IF c \in {"*", "/", "^"}
             THEN after /\ WellFormedFrom(t, i + 1, FALSE, "", depth)
             ELSE FALSE

WellFormed(t) == WellFormedFrom(t, 1, FALSE, "", 0)

\* C8: tokenize followed by convert succeeds on a text exactly when the text is a
\* well-formed infix expression with balanced parentheses
C8_AcceptedIffWellFormed ==
    /\ (tokens # None /\ ~tokens.ok) => ~WellFormed(text)
    /\ rpn # None => (rpn.ok <=> WellFormed(text))

\* operands alternate with binary operators and there is no parenthesis
Alternating(ts) ==
    /\ Len(ts) % 2 = 1
    /\ \A k \in 1..Len(ts) :
           IF k % 2 = 1 THEN ts[k].kind \in {"Number", "Variable"} ELSE ts[k].kind = "BinaryOp"

\* how tightly a binary operator binds: ^ above * and /, these above + and -
Binding(op) == IF op \in {"Plus", "Minus"} THEN 1 ELSE IF op \in {"Mult", "Div"} THEN 2 ELSE 3

\* the place of the operator applied last in the parse of ts: one that binds least,
\* the rightmost such for + - * / (they group left to right), the leftmost for ^
Root(ts) ==
    LET ops   == {k \in 1..Len(ts) : k % 2 = 0}
        least == CHOOSE k \in ops : \A j \in ops : Binding(ts[k].op) <= Binding(ts[j].op)
        at    == {k \in ops : Binding(ts[k].op) = Binding(ts[least].op)}
    IN  IF Binding(ts[least].op) = 3
        THEN CHOOSE k \in at : \A j \in at : k <= j
        ELSE CHOOSE k \in at : \A j \in at : k >= j

\* the postfix form of the parse of ts: left operand, right operand, operator
RECURSIVE Parsed(_)
Parsed(ts) ==
    IF Len(ts) = 1 THEN ts
    ELSE Parsed(SubSeq(ts, 1, Root(ts) - 1)) \o Parsed(SubSeq(ts, Root(ts) + 1, Len(ts)))
             \o <<ts[Root(ts)]>>

\* C9: for a token stream without parentheses in which operands alternate with binary
\* operators, convert returns the postfix form of the parse in which * and / bind
\* tighter than + and -, ^ tighter than * and /, + - * / group left to right and ^
\* groups right to left
C9_PrecedenceAndAssociativity ==
    (Tokenized /\ Alternating(tokens.val) /\ rpn # None) => rpn = Ok(Parsed(tokens.val))

\* 1 + 2 * 3 * 4 has been converted to 1 2 3 * 4 * +
C9_Witness ==
    /\ Tokenized
    /\ tokens.val = <<Number(Word(1)), BinaryOp("Plus"), Number(Word(2)), BinaryOp("Mult"),
                      Number(Word(3)), BinaryOp("Mult"), Number(Word(4))>>
    /\ rpn = Ok(<<Number(Word(1)), Number(Word(2)), Number(Word(3)), BinaryOp("Mult"),
                  Number(Word(4)), BinaryOp("Mult"), BinaryOp("Plus")>>)

(***************************************************************************)
(* Properties of the integrity digest.  log holds one entry per compile.   *)
(***************************************************************************)

\* C2: any two compiles of the same postfix expression give the same digest, whether
\* each is made by a fresh Compiler or both by one Compiler
C2_SameSourceSameDigest ==
    \A i, j \in 1..Len(log) :
        (log[i].rpn = log[j].rpn /\ log[i].integrity # None /\ log[j].integrity # None)
            => log[i].integrity = log[j].integrity

\* the places in the code (from 1) of the 8 immediate bytes of the `mov RAX, imm64`
\* instructions that start at the offsets movs: each is REX, opcode, immediate
ImmediateBytes(movs) == UNION {(movs[k] + 3)..(movs[k] + 10) : k \in 1..Len(movs)}

\* the bytes of code in order, those at the places skip left out
Without(code, skip) ==
    Iterate(LAMBDA kept, i : IF i \in skip THEN kept ELSE Append(kept, code[i]),
            <<>>, 1, Len(code))

\* C3: the bytes a compile feeds to the hasher are the emitted code in emission order
\* without the 8 immediate bytes of each native call's `mov RAX, imm64`, and nothing
\* else is left out or fed twice
C3_HashedAllButImmediates ==
    \A k \in 1..Len(log) :
        log[k].integrity # None
            => log[k].fed = Without(log[k].code, ImmediateBytes(log[k].native_movs))

\* C4: two compiles of the same postfix expression by Compilers in the same state, in
\* processes whose helpers are at different addresses, feed the same bytes to the
\* hasher and give the same digest
C4_DigestIgnoresHelperAddresses ==
    \A i, j \in 1..Len(log) :
        (log[i].rpn = log[j].rpn /\ log[i].before = log[j].before)
            => (log[i].fed = log[j].fed /\ log[i].integrity = log[j].integrity)

\* an expression with a native call has been compiled by fresh Compilers in two
\* processes: the code differs (it holds the helper's address), the digest does not
C4_Witness ==
    /\ Len(log) = 2
    /\ log[1].process.pow # log[2].process.pow
    /\ log[1].process.factorial # log[2].process.factorial
    /\ log[1].before = log[2].before
    /\ log[1].native_movs # <<>>
    /\ log[1].code # log[2].code
    /\ log[1].integrity # None
    /\ log[1].integrity = log[2].integrity

(***************************************************************************)
(* Properties of Executable::run.                                          *)
(***************************************************************************)

\* run has returned or the process has died in the blob
Ran == exe # None /\ exe.ok /\ result # None

\* the outcome r is the error UnititializedVariable
IsUninitialized(r) ==
    r.ret # None /\ ~r.ret.ok /\ r.ret.err[1] = "UnititializedVariable"

\* the names of the variable catalog of the Executable e
Catalog(e) == {e.variables_map[k] : k \in 1..Len(e.variables_map)}

\* the supplied map without the names outside S
Restrict(supplied, S) == [n \in (DOMAIN supplied) \cap S |-> supplied[n]]

\* C10: run returns UnititializedVariable exactly when a name of the catalog is absent
\* from the supplied map; the name it reports is such a name and the blob is not
\* called; supplied names outside the catalog change nothing: the outcome is one that
\* run has on the supplied map without them
C10_UninitializedVariable ==
    Ran =>
        /\ IsUninitialized(result) <=> (Catalog(exe.val) \ DOMAIN variables # {})
        /\ IsUninitialized(result) =>
               /\ result.ret.err[2] \in Catalog(exe.val) \ DOMAIN variables
               /\ ~result.invoked
        /\ \E env \in Envs :
               result \in Executable_run(exe.val, Restrict(variables, Catalog(exe.val)),
                                         process, env)

\* x + y was run with x and the unused name z supplied, and y was reported
C10_Witness ==
    /\ Ran
    /\ rpn.val = <<Variable(<<"x">>), Variable(<<"y">>), BinaryOp("Plus")>>
    /\ DOMAIN variables = {<<"x">>, <<"z">>}
    /\ result.ret = Err(<<"UnititializedVariable", <<"y">>>>)
    /\ ~result.invoked

\* a / b in wrapping two's complement arithmetic, truncated toward zero; b # 0
wrapping_div(a, b) ==
    Let(UDivRem(Magnitude(a), Magnitude(b))[1], LAMBDA q :
        IF IsNeg(a) # IsNeg(b) THEN wrapping_neg(q) ELSE q)

\* the abstract stack after the tokens of the postfix expression e from token i on,
\* stack before them; each binary operator takes the value pushed earlier as its left
\* operand; the empty stack once a division has a zero divisor
RECURSIVE Evaluate(_, _, _)
Evaluate(e, i, stack) ==
    IF i > Len(e) THEN stack
    ELSE LET t    == e[i]
             n    == Len(stack)
             rhs  == stack[n]
             lhs  == stack[n - 1]
             rest == SubSeq(stack, 1, n - 2)
         IN  IF t.kind = "Number" THEN Evaluate(e, i + 1, Append(stack, t.val))
             ELSE IF n = 0 THEN <<>>
             ELSE IF t.kind = "UnaryOp"
             THEN Evaluate(e, i + 1,
                      Append(SubSeq(stack, 1, n - 1),
                             IF t.op = "Minus" THEN wrapping_neg(rhs)
                             ELSE IF t.op = "Fact" THEN factorial(rhs)
                             ELSE rhs))
             ELSE IF t.op = "Div" /\ IsZero(rhs) THEN <<>>
             ELSE Evaluate(e, i + 1,
                      Append(rest,
                             IF t.op = "Plus" THEN wrapping_add(lhs, rhs)
                             ELSE IF t.op = "Minus" THEN wrapping_sub(lhs, rhs)
                             ELSE IF t.op = "Mult" THEN wrapping_mul(lhs, rhs)
                             ELSE IF t.op = "Div" THEN wrapping_div(lhs, rhs)
                             ELSE pow(lhs, rhs)))

\* the value of the postfix expression e, <<>> when a division has a zero divisor
Reference(e) == Evaluate(e, 1, <<>>)

\* C1: for a postfix expression without variables in which no division has a zero
\* divisor, run with the empty map returns the value of its left-to-right evaluation
\* on an abstract stack in wrapping 64-bit two's complement arithmetic
C1_RunEqualsReference ==
    (Ran /\ variables = <<>> /\ Reference(rpn.val) # <<>>)
        => result.ret = Ok(Reference(rpn.val)[1])


(***************************************************************************)
(* Properties of the variable catalog.                                     *)
(***************************************************************************)

\* the last compile made, when it returned an Executable
Compiled == log # <<>> /\ exe # None /\ exe.ok

\* the names of the Variable tokens of e, one per occurrence, in order
RECURSIVE Occurrences(_, _)
Occurrences(e, i) ==
    IF i > Len(e) THEN <<>>
    ELSE (IF e[i].kind = "Variable" THEN <<e[i].name>> ELSE <<>>) \o Occurrences(e, i + 1)

\* the sequence names without the repetitions of a name: the order of first occurrence
RECURSIVE FirstOccurrences(_, _)
FirstOccurrences(names, i) ==
    IF i > Len(names) THEN <<>>
    ELSE (IF \E j \in 1..(i - 1) : names[j] = names[i] THEN <<>> ELSE <<names[i]>>)
         \o FirstOccurrences(names, i + 1)

\* the slot indices the code loads from, in code order: the Variable arm is the only
\* place that emits `add SCRATCH_REG, imm32`, with the immediate 8 * slot
RECURSIVE SlotsLoaded(_, _)
SlotsLoaded(code, pc) ==
    IF pc >= Len(code) THEN <<>>
    ELSE Let(Decode(code, pc, [r \in 0..15 |-> Word(0)]), LAMBDA i :
             (IF i.opc = 129 /\ i.mod = 3 /\ i.reg % 8 = 0 /\ i.rm = SCRATCH_REG
              THEN <<AddrOf(i.imm) \div 8>> ELSE <<>>)
             \o SlotsLoaded(code, pc + i.len))

\* C11: after a compile the catalog holds each name once, so that its n names have the
\* slots 0 .. n-1, the slots follow the order in which the names first occur in the
\* compiled postfix expression, and the code loads every occurrence of a name from the
\* slot of that name
C11_CatalogInFirstUseOrder ==
    Compiled =>
        LET cat   == exe.val.variables_map
            names == Occurrences(log[Len(log)].rpn, 1)
            slots == SlotsLoaded(exe.val.bytes, 0)
        IN  /\ \A i, j \in DOMAIN cat : cat[i] = cat[j] => i = j
            /\ cat = FirstOccurrences(names, 1)
            /\ Len(slots) = Len(names)
            /\ \A k \in DOMAIN names : slots[k] = map_get(cat, names[k])

\* the same for the compiles a fresh Compiler makes
FreshCompilerCatalogInOrder ==
    (Compiled /\ log[Len(log)].before = Compiler_new) => C11_CatalogInFirstUseOrder


(***************************************************************************)
(* Properties of the Executable's memory.                                  *)
(***************************************************************************)

\* C12: the Executable a compile returned has its code region, and is_executable is
\* true of it; no run, the first or a later one, returns CodeNotGenerated or
\* CodeMemoryNotExecutable
C12_CodeIsExecutable ==
    /\ (exe # None /\ exe.ok) => (exe.val.code # None /\ is_executable(exe.val.code))
    /\ result # None =>
           result.ret \notin {Err(<<"CodeNotGenerated">>), Err(<<"CodeMemoryNotExecutable">>)}

\* an Executable has been run MaxRuns times and the last run returned a value
C12_Witness ==
    /\ exe # None /\ exe.ok
    /\ runs = MaxRuns
    /\ result # None /\ result.status = "returned" /\ result.ret.ok

\* the pages of the mapping made for the Executable e
MappingOf(e) == PagesOf(e.eval_stack.ptr, e.eval_stack.size + e.code.size)

\* C13: while the Executable exists, before, during and after every run, the pages
\* that hold the code blob are readable and executable and not writable, and no page
\* of the Executable is writable and executable at once
C13_WriteXorExecute ==
    (exe # None /\ exe.ok) =>
        /\ \A p \in PagesOf(exe.val.code.ptr, exe.val.code.size) : os.pages[p] = MAP_RX
        /\ \A p \in MappingOf(exe.val) : ~({"PROT_WRITE", "PROT_EXEC"} \subseteq os.pages[p])
        /\ ~({"PROT_WRITE", "PROT_EXEC"} \subseteq exe.val.code.protect)
        /\ ~({"PROT_WRITE", "PROT_EXEC"} \subseteq exe.val.eval_stack.protect)

\* an Executable has been dropped
Dropped == os.munmaps # <<>>

\* C14: the drop of an Executable unmaps every page of the mapping made for it, no
\* page twice, none of its munmap calls fails and the drop does not panic
C14_DropUnmapsAll ==
    Dropped =>
        /\ DOMAIN os.pages = {}
        /\ \A j, k \in DOMAIN os.munmaps :
               j # k => os.munmaps[j].pages \cap os.munmaps[k].pages = {}
        /\ \A k \in DOMAIN os.munmaps : os.munmaps[k].ret = 0
        /\ ~os.panic

\* what the drop does do: every page is unmapped, by the munmap of the eval stack
\* handle, after the munmap of the code handle has failed
DropUnmapsAllButPanics ==
    Dropped =>
        /\ DOMAIN os.pages = {}
        /\ Len(os.munmaps) = 2
        /\ os.munmaps[1].ret = -1 /\ os.munmaps[2].ret = 0
        /\ os.panic


(***************************************************************************)
(* Properties of the errors of the converter and the tokenizer.            *)
(***************************************************************************)

\* the parentheses of the stream t from token i on, depth of them open: "closing" when
\* an RParen has no LParen open before it, else "opening" when an LParen is never
\* closed, else "balanced"
RECURSIVE Parens(_, _, _)
Parens(t, i, depth) ==
    IF i > Len(t) THEN (IF depth > 0 THEN "opening" ELSE "balanced")
    ELSE IF t[i] = LParen THEN Parens(t, i + 1, depth + 1)
    ELSE IF t[i] = RParen
    THEN (IF depth = 0 THEN "closing" ELSE Parens(t, i + 1, depth - 1))
    ELSE Parens(t, i + 1, depth)

\* convert has returned
Converted == tokens # None /\ tokens.ok /\ rpn # None

\* C15: convert returns MismatchedClosingParen exactly when an RParen of the stream has
\* no unmatched LParen before it, and otherwise MismatchedOpeningParen exactly when an
\* LParen is never closed, whatever the operands and operators of the stream are
C15_ParenErrors ==
    Converted =>
        /\ (~rpn.ok /\ rpn.err = "MismatchedClosingParen")
               <=> Parens(tokens.val, 1, 0) = "closing"
        /\ (~rpn.ok /\ rpn.err = "MismatchedOpeningParen")
               <=> Parens(tokens.val, 1, 0) = "opening"

\* a stream with an operand too many and an LParen left open is reported for the LParen
C15_Witness ==
    /\ Converted
    /\ tokens.val = <<LParen, Number(Word(1)), Number(Word(1))>>
    /\ ~rpn.ok /\ rpn.err = "MismatchedOpeningParen"


\* the place in the text t where its first numeric literal starts: the first digit
\* that does not continue a name; 0 when there is none
LiteralStart(t) ==
    LET starts == {i \in DOMAIN t : is_ascii_digit(t[i]) /\ (i = 1 \/ ~is_var_char(t[i - 1]))}
    IN  IF starts = {} THEN 0 ELSE CHOOSE i \in starts : \A j \in starts : i <= j

\* the tokens of the part of t before place i, none when that part does not tokenize
TokensBefore(t, i) == tokenize(Tokenizer_new, SubSeq(t, 1, i - 1)).res

\* the digits of i64::MAX = 2^63 - 1
MaxDecimal ==
    <<"9", "2", "2", "3", "3", "7", "2", "0", "3", "6", "8", "5", "4", "7", "7", "5", "8",
      "0", "7">>

\* the digit string without its leading zeros
RECURSIVE StripZeros(_)
StripZeros(digits) ==
    IF digits # <<>> /\ digits[1] = "0" THEN StripZeros(Tail(digits)) ELSE digits

\* the number the decimal digits denote is at most 2^63 - 1: fewer digits than
\* MaxDecimal, or as many and not after it in the order of the digit strings
FitsI64(digits) ==
    LET d == StripZeros(digits)
    IN  \/ Len(d) < Len(MaxDecimal)
        \/ /\ Len(d) = Len(MaxDecimal)
           /\ \/ d = MaxDecimal
              \/ \E i \in DOMAIN d :
                    /\ to_digit(d[i]) < to_digit(MaxDecimal[i])
                    /\ \A j \in 1..(i - 1) : d[j] = MaxDecimal[j]

\* the number that digits denote in the radix 10 or 16, by additions only
ValueOf(digits, radix) ==
    Iterate(LAMBDA acc, i :
                Let(wrapping_add(acc, acc), LAMBDA x2 :
                Let(wrapping_add(wrapping_add(x2, x2), wrapping_add(x2, x2)), LAMBDA x8 :
                    wrapping_add(IF radix = 10 THEN wrapping_add(x8, x2)
                                 ELSE wrapping_add(x8, x8),
                                 Word(to_digit(digits[i]))))),
            Word(0), 1, Len(digits))

\* the text has a literal, the part before it tokenizes, and tokenize has returned
LiteralTokenized ==
    /\ tokens # None
    /\ LiteralStart(text) > 0
    /\ TokensBefore(text, LiteralStart(text)).ok

HexFits(digits) ==
    LET d == StripZeros(digits)
    IN  Len(d) < 16 \/ (Len(d) = 16 /\ to_digit(d[1]) < 8)

\* the literal at place s of the text t begins with the prefix 0x
HasPrefix0x(t, s) == s < Len(t) /\ t[s] = "0" /\ t[s + 1] = "x"

\* the digits of the literal at place s of t: the hex digits after the prefix 0x,
\* the decimal digits from s on when there is no such prefix
LiteralDigits(t, s) ==
    IF HasPrefix0x(t, s) THEN TakeWhile(is_ascii_hexdigit, t, s + 2)
    ELSE TakeWhile(is_ascii_digit, t, s)

\* the value of the literal at place s of t fits a signed 64-bit integer
LiteralFits(t, s) ==
    IF HasPrefix0x(t, s) THEN LiteralDigits(t, s) # <<>> /\ HexFits(LiteralDigits(t, s))
    ELSE FitsI64(LiteralDigits(t, s))

\* what tokenize gives when the first literal of t is read by the lexical rule: the
\* tokens before it, Number of its value, and the tokens of what follows its digits
ReadByRule(t) ==
    LET s      == LiteralStart(t)
        hex    == HasPrefix0x(t, s)
        digits == LiteralDigits(t, s)
        before == tokenize(Tokenizer_new, SubSeq(t, 1, s - 1))
        n      == Number(ValueOf(digits, IF hex THEN 16 ELSE 10))
    IN  tokenize_from([prev |-> n, variables |-> before.self.variables], t,
                      s + Len(digits) + (IF hex THEN 2 ELSE 0),
                      Append(before.res.val, n)).res

\* C17: a literal is read as hexadecimal exactly when it begins with 0x, its value is
\* then that of the hex digits after the prefix; any other literal is read as the
\* decimal integer of its digits 0-9 only, and what follows the digits is tokenized
\* on its own
C17_HexOnlyAfter0x ==
    (LiteralTokenized /\ LiteralFits(text, LiteralStart(text))) =>
        tokens = ReadByRule(text)

\* the same for the texts where only a first digit 0 is followed by x
HexAfterZeroX ==
    LET s == LiteralStart(text)
    IN  (/\ LiteralTokenized
         /\ LiteralFits(text, s)
         /\ (s < Len(text) /\ text[s + 1] = "x") => text[s] = "0") =>
            tokens = ReadByRule(text)

\* a literal with the prefix 0x has been read as the value of its hex digits
HexLiteralRead ==
    /\ tokens # None
    /\ text = <<"0", "x", "f", "F">>
    /\ tokens = Ok(<<Number(Word(255))>>)


\* the ASCII letters, by their codes 65..90 and 97..122
IsLetter(c) == \E i \in (34..59) \cup (66..91) : Ascii[i] = c

\* [A-Za-z_] and [A-Za-z0-9_]
StartsName(c) == IsLetter(c) \/ c = "_"

InName(c) == StartsName(c) \/ (\E i \in 17..26 : Ascii[i] = c)

\* the characters that the lexical rules give a meaning to
Lexical(c) ==
    InName(c) \/ c \in {"+", "-", "*", "/", "^", "!", "(", ")", " ", "\t", "\n", "\r"}

\* the place in the text t where its first name starts: the first letter or _ that
\* follows no letter, digit or _; 0 when there is none
NameStart(t) ==
    LET starts == {i \in DOMAIN t : StartsName(t[i]) /\ (i = 1 \/ ~InName(t[i - 1]))}
    IN  IF starts = {} THEN 0 ELSE CHOOSE i \in starts : \A j \in starts : i <= j

\* the text has a name that starts with a letter, the part before it tokenizes, and
\* tokenize has returned
LetterMet ==
    /\ tokens # None
    /\ NameStart(text) > 0
    /\ IsLetter(text[NameStart(text)])
    /\ TokensBefore(text, NameStart(text)).ok

C19_NonEmptyBufferMeansZero ==
    (/\ ffi.call = "evaluate_expression"
     /\ ~ffi.panic
     /\ result.status = "returned"
     /\ ffi.error_msg # None
     /\ Len(ffi.error_msg.to) > 0
     /\ ffi.error_msg.to[1] # 0) =>
        ffi.ret = Word(0)

\* the same for the first call of evaluate_expression after a compile_expression
\* that returned a handle
FirstEvaluateBufferMeansZero ==
    (runs = 1 /\ exe # None) => C19_NonEmptyBufferMeansZero

\* the message compile_expression reports for the input, <<>> when there is none
CompileMessage(input) ==
    IF input = None THEN Utf8["Invalid input string pointer!"]
    ELSE IF input = NotUtf8
    THEN Utf8["Failed to convert the input string to a Rust string!"]
    ELSE LET tk == tokenize(Tokenizer_new, input.to).res
         IN  IF ~tk.ok
             THEN Utf8["Failed to tokenize the input: "] \o fmt("TokenizerError", tk.err)
             ELSE IF ~convert(tk.val).ok
             THEN Utf8["Failed to convert the input to RPN: "]
                  \o fmt("RPNConverterError", convert(tk.val).err)
             ELSE <<>>

\* compile_expression was called and the input is one that it rejects
CompileFailed == ffi.call = "compile_expression" /\ CompileMessage(text) # <<>>

\* the buffer holds the message, at least one NUL after it and zeros to its end
HoldsMessage(buf, msg) ==
    /\ buf # None
    /\ Len(buf.to) > Len(msg)
    /\ \A k \in DOMAIN buf.to : buf.to[k] = IF k <= Len(msg) THEN msg[k] ELSE 0

\* C20: on every failure path of compile_expression, whatever the lengths of the
\* error buffer (a buffer that is not null) and of the message, the call returns a
\* null handle and the error buffer holds the message followed by at least one NUL
\* and zeros after it
C20_ErrorBufferHoldsMessage ==
    (CompileFailed /\ ffi.error_msg # None) =>
        /\ ~ffi.panic
        /\ ffi.ret = None
        /\ HoldsMessage(ffi.error_msg, CompileMessage(text))

\* the same for the error buffers that are longer than the message
LongBufferHoldsMessage ==
    (/\ CompileFailed
     /\ ffi.error_msg # None
     /\ Len(ffi.error_msg.to) > Len(CompileMessage(text))) =>
        /\ ~ffi.panic
        /\ ffi.ret = None
        /\ HoldsMessage(ffi.error_msg, CompileMessage(text))


\* the registers a System V callee has to preserve, other than RSP
CalleeSaved == {Reg64.Rbx, Reg64.Rbp, Reg64.R12, Reg64.R13, Reg64.R14, Reg64.R15}

\* the registers of the push (opcodes 50+r) or pop (58+r) instructions that the code
\* holds one after the other from offset pc on
RECURSIVE StackOps(_, _, _)
StackOps(code, pc, first) ==
    LET i == Decode(code, pc, [r \in 0..15 |-> Word(0)])
    IN  IF i.opc >= first /\ i.opc <= first + 7
        THEN <<i.low>> \o StackOps(code, pc + i.len, first)
        ELSE <<>>

Reverse(s) == [k \in DOMAIN s |-> s[Len(s) + 1 - k]]

\* the registers the prologue pushes, from the entry of the code on
Pushed(code) == StackOps(code, 0, 80)

\* the registers the epilogue pops: the pops that end at the final ret (each is a REX
\* byte and an opcode byte)
Popped(code) == StackOps(code, Len(code) - 1 - 2 * Len(Pushed(code)), 88)

\* the machine when the blob of the Executable is entered
Entered(env) ==
    Enter(Layout(exe.val, process), env,
          variables_area(exe.val, variables, Layout(exe.val, process).vars_ptr))

\* the machines at the end of the runs of the blob: an access outside the mapped memory
\* ends the run with SIGSEGV or goes on with what the address holds
Finished(env) ==
    Let(Invoke(exe.val, variables, Layout(exe.val, process), Answering(env, "SIGSEGV")),
        LAMBDA m :
            IF m.status # "SIGSEGV" THEN {m}
            ELSE {m, Invoke(exe.val, variables, Layout(exe.val, process),
                            Answering(env, "junk"))})

\* the blob of the Executable was called by run and executed its ret to the caller
Returned == Ran /\ result.invoked /\ result.status = "returned"

\* C21: when the generated function has run from its entry to its ret, RSP is the
\* entry value plus the 8 bytes of the return address that ret popped, and RBX, RBP,
\* R12, R13, R14 and R15 hold their entry values; the epilogue pops the registers the
\* prologue pushed, in reverse order, and the ret follows the last pop
C21_StackAndCalleeSavedRestored ==
    Returned =>
        /\ Pushed(exe.val.bytes) # <<>>
        /\ CalleeSaved \subseteq Range(Pushed(exe.val.bytes))
        /\ Popped(exe.val.bytes) = Reverse(Pushed(exe.val.bytes))
        /\ \A env \in Envs : \A m \in Finished(env) :
               m.status = "returned" =>
                   /\ m.regs[Reg64.Rsp] = wrapping_add(Entered(env).regs[Reg64.Rsp], Word(8))
                   /\ \A r \in CalleeSaved : m.regs[r] = Entered(env).regs[r]

\* a program that calls both helpers has run to its ret
C21_Witness ==
    /\ Returned
    /\ rpn.val = <<Number(Word(1)), UnaryOp("Fact"), Number(Word(1)), BinaryOp("Pow")>>
    /\ result.ret = Ok(Word(1))


\* a call of the assembler has been made
Assembled == asm.call # "none" /\ asm.out # None

\* the last n bytes of the code
LastBytes(code, n) == SubSeq(code, Len(code) - n + 1, Len(code))

\* add or sub of an Imm64 to a register, or mov of an Imm64 to memory
TakesImm32 ==
    /\ Assembled
    /\ asm.src # None
    /\ asm.src.t = "Imm64"
    /\ \/ asm.call \in {"add", "sub"} /\ asm.dst.t = "Reg"
       \/ asm.call = "mov" /\ asm.dst.t = "MemDisp"

\* C22: add, sub and mov to memory with an Imm64 operand either panic or emit an
\* instruction whose 32-bit immediate (its last 4 bytes), sign-extended to 64 bits, is
\* the operand's value
C22_Imm32DenotesOperand ==
    TakesImm32 =>
        \/ asm.out.panic
        \/ SignExtend(LastBytes(asm.out.writer, 4), 8) = asm.src.imm

\* the same for the operands whose value is an i32: the upper 33 bits are all equal
Imm32DenotesOperandInRange ==
    (TakesImm32 /\ SignExtend(SubSeq(asm.src.imm, 1, 4), 8) = asm.src.imm) =>
        /\ ~asm.out.panic
        /\ SignExtend(LastBytes(asm.out.writer, 4), 8) = asm.src.imm

\* the digit of the opcode F7 that selects neg, mul, imul, div, idiv
DigitF7 == [neg |-> 3, mul |-> 4, imul |-> 5, div |-> 6, idiv |-> 7]

\* C23: neg, mul, imul, div and idiv of a register r append 3 bytes: REX 0x48 (0x49
\* for r >= 8), the opcode 0xF7, the ModRM byte 0xC0 | digit << 3 | r mod 8
C23_ThreeBytesF7 ==
    (Assembled /\ asm.call \in DOMAIN DigitF7 /\ asm.dst.t = "Reg") =>
        /\ ~asm.out.panic
        /\ asm.out.writer = <<72 + (IF asm.dst.reg >= 8 THEN 1 ELSE 0), 247,
                              192 + 8 * DigitF7[asm.call] + (asm.dst.reg % 8)>>

\* idiv r12 has been assembled to 49 F7 FC
C23_Witness ==
    /\ Assembled
    /\ asm.call = "idiv"
    /\ asm.dst = Reg(Reg64.R12)
    /\ asm.out.writer = <<73, 247, 252>>

\* a mov with a MemDisp operand
MovMem ==
    /\ Assembled
    /\ asm.call = "mov"
    /\ asm.dst.t = "MemDisp" \/ asm.src.t = "MemDisp"
    /\ ~asm.out.panic

\* registers that all hold different values, none the sum of another and a drawn
\* displacement
Distinct == [r \in 0..15 |-> [k \in 1..8 |-> IF k = 3 THEN r + 1 ELSE 0]]

\* the emitted bytes are one instruction that accesses [base + disp32] with mod = 10,
\* moving to or from the register or the immediate of the call
AccessesBaseDisp ==
    LET mem == IF asm.dst.t = "MemDisp" THEN asm.dst ELSE asm.src
        i   == Decode(asm.out.writer, 0, Distinct)
    IN  /\ i.len = Len(asm.out.writer)
        /\ i.w = 1
        /\ i.mod = 2
        /\ i.ea = wrapping_add(Distinct[mem.reg], SignExtend(mem.disp, 8))
        /\ IF asm.dst.t = "Reg" THEN i.opc = 139 /\ i.reg = asm.dst.reg
           ELSE IF asm.src.t = "Reg" THEN i.opc = 137 /\ i.reg = asm.src.reg
           ELSE i.opc = 199 /\ i.reg % 8 = 0

\* C26: a mov with a MemDisp(base, disp) operand that does not panic emits the
\* encoding of an access to [base + disp32], whatever the base register is
C26_MemDispEncodesBasePlusDisp ==
    MovMem => AccessesBaseDisp

\* the same for the bases that need no SIB byte: all but RSP and R12
MemDispWithoutSib ==
    LET mem == IF asm.dst.t = "MemDisp" THEN asm.dst ELSE asm.src
    IN  (MovMem /\ mem.reg % 8 # 4) => AccessesBaseDisp


\* the index of the first character of the input that is not whitespace, 0 if none
FirstNonWhitespace(input) ==
    IF \A i \in DOMAIN input : is_whitespace(input[i]) THEN 0
    ELSE CHOOSE i \in DOMAIN input :
             /\ ~is_whitespace(input[i])
             /\ \A j \in 1..(i - 1) : is_whitespace(input[j])

\* the call of tokenize on the current input returned Ok and the input begins, after
\* whitespace, with a minus sign
LeadingMinus ==
    /\ Tokenized
    /\ FirstNonWhitespace(text) # 0
    /\ text[FirstNonWhitespace(text)] = "-"

\* C24: on every call of tokenize, also on a Tokenizer that has tokenized before, a
\* minus sign that is the first non-whitespace character of the input is the token
\* UnaryOp(Minus)
C24_LeadingMinusIsUnary ==
    LeadingMinus => tokens.val[1] = UnaryOp("Minus")


\* C25: in convert the unary minus binds tighter than the binary + - * /, looser than
\* ^, and the factorial binds tightest: - a o b becomes a - b o for o in + - * /,
\* - a ^ b becomes a b ^ -, a ^ b ! becomes a b ! ^, - a ! becomes a ! -
C25_UnaryMinusPrecedence ==
    Converted =>
        \A a \in Atoms, b \in Atoms :
            /\ \A o \in {"Plus", "Minus", "Mult", "Div"} :
                   tokens.val = <<UnaryOp("Minus"), a, BinaryOp(o), b>> =>
                       rpn = Ok(<<a, UnaryOp("Minus"), b, BinaryOp(o)>>)
            /\ tokens.val = <<UnaryOp("Minus"), a, BinaryOp("Pow"), b>> =>
                   rpn = Ok(<<a, b, BinaryOp("Pow"), UnaryOp("Minus")>>)
            /\ tokens.val = <<a, BinaryOp("Pow"), b, UnaryOp("Fact")>> =>
                   rpn = Ok(<<a, b, UnaryOp("Fact"), BinaryOp("Pow")>>)
            /\ tokens.val = <<UnaryOp("Minus"), a, UnaryOp("Fact")>> =>
                   rpn = Ok(<<a, UnaryOp("Fact"), UnaryOp("Minus")>>)

\* - 1 ^ x has been converted to 1 x ^ -
C25_Witness ==
    /\ Converted
    /\ tokens.val = <<UnaryOp("Minus"), Number(Word(1)), BinaryOp("Pow"), Variable(<<"x">>)>>
    /\ rpn = Ok(<<Number(Word(1)), Variable(<<"x">>), BinaryOp("Pow"), UnaryOp("Minus")>>)


\* the last call was split_end(k) on a handle over [p, p + s)
SplitEndCalled == mm.call.op = "split_end"

\* C27: split_end(k) on a handle over [p, p + s) with k <= s returns a handle over
\* [p + s - k, p + s) and leaves the original over [p, p + s - k): the two are disjoint
\* and together they are the range before; with k > s it returns
\* SplitFailedNotEnoughSpace and leaves the original as it was
C27_SplitEndPartitions ==
    SplitEndCalled =>
        LET was == mm.call.before[mm.call.handle]
            now == mm.live[mm.call.handle]
            k   == mm.call.arg
        IN  IF k <= was.size
            THEN /\ mm.call.res.ok
                 /\ mm.call.res.val = mm.live[Len(mm.live)]
                 /\ Len(mm.live) = Len(mm.call.before) + 1
                 /\ now.ptr = was.ptr
                 /\ now.size = was.size - k
                 /\ mm.call.res.val.ptr = was.ptr + was.size - k
                 /\ mm.call.res.val.size = k
                 /\ now.ptr + now.size = mm.call.res.val.ptr
                 /\ mm.call.res.val.ptr + mm.call.res.val.size = was.ptr + was.size
            ELSE /\ mm.call.res = Err("SplitFailedNotEnoughSpace")
                 /\ mm.live = mm.call.before

\* split_end(page_size + 100) on a handle of three pages has returned a handle and
\* left the original with two pages less 100 bytes
C27_Witness ==
    /\ SplitEndCalled
    /\ mm.call.arg = page_size + 100
    /\ mm.call.before[mm.call.handle].size = 3 * page_size
    /\ mm.call.res.ok
    /\ mm.live[mm.call.handle].size = 2 * page_size - 100

\* split_end has refused a size larger than the handle
SplitEndRefused ==
    /\ SplitEndCalled
    /\ mm.call.arg > mm.call.before[mm.call.handle].size
    /\ ~mm.call.res.ok

\* C30: the protection recorded in every live handle is the protection the operating
\* system has for every page the handle covers
C30_RecordedProtectionIsActual ==
    \A h \in DOMAIN mm.live :
        \A p \in PagesOf(mm.live[h].ptr, mm.live[h].size) :
            p \in DOMAIN os.pages /\ os.pages[p] = mm.live[h].protect

\* the same while every live handle begins and ends on a page boundary
PageAligned(h) == h.ptr % page_size = 0 /\ h.size % page_size = 0

AlignedHandlesAgree ==
    (\A h \in DOMAIN mm.live : PageAligned(mm.live[h])) => C30_RecordedProtectionIsActual


\* the names in the postfix expression of the last compile
NamesCompiled == Range(Occurrences(log[Len(log)].rpn, 1))

\* C28: the catalog of the Executable a compile returned holds exactly the names in the
\* compiled expression, so that run finds nothing uninitialized when a value is
\* supplied for each of them, also when the Compiler has compiled before
C28_CatalogIsNamesCompiled ==
    Compiled =>
        /\ Range(exe.val.variables_map) = NamesCompiled
        /\ Uninitialized(exe.val, [n \in NamesCompiled |-> Word(1)]) = {}

\* the same for the compiles a fresh Compiler makes
FreshCompilerCatalogIsNamesCompiled ==
    (Compiled /\ log[Len(log)].before = Compiler_new) => C28_CatalogIsNamesCompiled


\* the accesses to memory through EVAL_STACK that a run of the blob makes, in order:
\* whether it is a load, the register loaded or stored, the address, and EVAL_STACK
\* after the instruction; with the machine at the end of the run
EvalStackTrace(self, supplied, lay, env) ==
    Iterate(LAMBDA x, k :
                IF x.m.status # "running" THEN x
                ELSE Let2(Decode(self.bytes, x.m.pc, x.m.regs),
                          Step(x.m, self.bytes, lay, env),
                          LAMBDA i, m2 :
                              [m   |-> m2,
                               acc |-> IF i.opc \in {137, 139, 199} /\ i.mod # 3
                                          /\ i.rm = EVAL_STACK
                                       THEN Append(x.acc, [load  |-> i.opc = 139,
                                                           reg   |-> i.reg,
                                                           ea    |-> i.ea,
                                                           after |-> m2.regs[EVAL_STACK]])
                                       ELSE x.acc]),
            [m |-> Enter(lay, env, variables_area(self, supplied, lay.vars_ptr)), acc |-> <<>>],
            1, Len(self.bytes))

\* no access below the base, every slot loaded was stored before, and a run that returns
\* ends its accesses with the load of the slot at the base into RAX, EVAL_STACK being
\* the base again
Disciplined(t, lay) ==
    /\ \A k \in DOMAIN t.acc : AddrOf(t.acc[k].ea) >= lay.eval_ptr
    /\ \A k \in DOMAIN t.acc :
           t.acc[k].load =>
               \E j \in 1..(k - 1) : ~t.acc[j].load /\ t.acc[j].ea = t.acc[k].ea
    /\ t.m.status = "returned" =>
           /\ t.acc # <<>>
           /\ t.acc[Len(t.acc)].load
           /\ t.acc[Len(t.acc)].reg = Reg64.Rax
           /\ t.acc[Len(t.acc)].ea = Word(lay.eval_ptr)
           /\ t.acc[Len(t.acc)].after = Word(lay.eval_ptr)

\* the blob of an expression that convert returned has been called
RanConverted == Converted /\ Ran /\ result.invoked

\* every run of the current blob is disciplined
EveryRunDisciplined ==
    \A env \in Envs, oob \in {"SIGSEGV", "junk"} :
        Disciplined(EvalStackTrace(exe.val, variables, Layout(exe.val, process),
                                   Answering(env, oob)),
                    Layout(exe.val, process))

\* C29: the code generated for a postfix expression that convert accepted never loads
\* or stores below the base of the eval stack, loads only slots it has stored in the
\* same run, and has EVAL_STACK at the base again after the final pop into RAX
C29_EvalStackDiscipline ==
    RanConverted => EveryRunDisciplined

\* the same for the expressions that are not empty
NonEmptyEvalStackDiscipline ==
    (RanConverted /\ rpn.val # <<>>) => EveryRunDisciplined

\* x ^ 2 has been run, through the native call
PowRanDisciplined ==
    /\ RanConverted
    /\ rpn.val = <<Variable(<<"x">>), Number(Word(2)), BinaryOp("Pow")>>
    /\ result.ret = Ok(Word(9))

====
